---- MODULE Spec2Model ----
(***************************************************************************)
(* A model of hpc_demo_setup.py: the idempotent reconciliation helpers     *)
(* (get_or_create, ensure_choice_set, ensure_cf_select, ensure_iface,      *)
(* cable_ifaces / cable_power), the sequential batch that calls them, the  *)
(* two metrics and the trace printer.  The remote NetBox service is the    *)
(* variable nb: one sequence of records per REST collection, identities    *)
(* assigned in creation order.                                             *)
(***************************************************************************)
EXTENDS Integers, Sequences, FiniteSets, TLC

VARIABLES
    nb,      \* the remote service: a record of collections (sequences of records)
    last,    \* ghost: the last helper invocation (arguments, pre-state, result, calls)
    ncalls,  \* ghost: number of helper invocations made so far
    has_choice_sets, \* whether the pynetbox client exposes custom_field_choice_sets
    env,     \* the objects the running script holds in its variables
    tr,      \* the decoded body of the trace response
    run      \* the progress of the batch: position, halted, calls issued

vars == <<nb, last, ncalls, has_choice_sets, env, tr, run>>

-----------------------------------------------------------------------------
(* Bounds of the model *)

\* how many resources a collection may hold initially
MaxInit == 2
\* how many times a helper is invoked in a row
MaxCalls == 2
\* how many values a caller asks a choice set to hold
MaxValues == 2
\* how many fragments a speed hint is made of
MaxFragments == 2
\* how many hops a trace response holds
MaxHops == 2

\* the batch is not running
NoRun == [pc |-> 0]

-----------------------------------------------------------------------------
(* Python values *)

\* None, and the result of a lookup that found nothing
None == [id |-> 0]
\* a keyword argument that was not passed / a key a dict does not hold
Absent == "<absent>"
\* Python truthiness of a string-or-missing value
Truthy(v) == v # Absent /\ v # ""

Min(S) == CHOOSE m \in S : \A n \in S : m <= n

\* A decoded JSON value is a record [k, s, items, fields]: k is its kind
\* ("null", "bool", "num", "str", "list", "dict"), s the text of a string,
\* number ("7") or bool ("True"), items the elements of a list, fields the
\* mapping of a dict.
JNull == [k |-> "null", s |-> "", items |-> <<>>, fields |-> <<>>]
JStr(x) == [k |-> "str", s |-> x, items |-> <<>>, fields |-> <<>>]
JNum(x) == [k |-> "num", s |-> x, items |-> <<>>, fields |-> <<>>]
JBool(x) == [k |-> "bool", s |-> x, items |-> <<>>, fields |-> <<>>]
JList(xs) == [k |-> "list", s |-> "", items |-> xs, fields |-> <<>>]
JDict(f) == [k |-> "dict", s |-> "", items |-> <<>>, fields |-> f]

\* bool(x)
PyTruthy(j) ==
    CASE j.k = "null" -> FALSE
      [] j.k = "bool" -> j.s = "True"
      [] j.k = "num" -> j.s # "0"
      [] j.k = "str" -> j.s # ""
      [] j.k = "list" -> j.items # <<>>
      [] j.k = "dict" -> DOMAIN j.fields # {}

\* a or b
PyOr(a, b) == IF PyTruthy(a) THEN a ELSE b

\* d.get(key), d a dict
PyGet(d, key) == IF key \in DOMAIN d.fields THEN d.fields[key] ELSE JNull

\* the keys a dict may hold, in the order they are listed when it is printed
JsonKeys == << "termination_a", "a", "from", "termination_b", "b", "to", "cable",
               "label", "display", "device", "name", "obj_type", "type",
               "object_type" >>

RECURSIVE PyRepr(_)
RECURSIVE ReprItems(_)
RECURSIVE ReprFields(_, _)

\* ", ".join(repr(x) for x in items)
ReprItems(items) ==
    IF items = <<>> THEN ""
    ELSE IF Len(items) = 1 THEN PyRepr(items[1])
    ELSE PyRepr(items[1]) \o ", " \o ReprItems(Tail(items))

\* the "'key': value" items of a dict, from key number i on
ReprFields(d, i) ==
    IF i > Len(JsonKeys) THEN ""
    ELSE IF JsonKeys[i] \notin DOMAIN d.fields THEN ReprFields(d, i + 1)
    ELSE LET item == "'" \o JsonKeys[i] \o "': " \o PyRepr(d.fields[JsonKeys[i]])
             rest == ReprFields(d, i + 1)
         IN IF rest = "" THEN item ELSE item \o ", " \o rest

\* repr(x)
PyRepr(j) ==
    CASE j.k = "null" -> "None"
      [] j.k \in {"bool", "num"} -> j.s
      [] j.k = "str" -> "'" \o j.s \o "'"
      [] j.k = "list" -> "[" \o ReprItems(j.items) \o "]"
      [] j.k = "dict" -> "{" \o ReprFields(j, 1) \o "}"

\* str(x), and the text of x in an f-string
PyStr(j) == IF j.k = "str" THEN j.s ELSE PyRepr(j)

-----------------------------------------------------------------------------
(* The remote service as seen through the client *)

Collections ==
    { "custom_fields", "custom_field_choice_sets", "tags", "device_roles",
      "sites", "rack_roles", "racks", "manufacturers", "device_types",
      "devices", "interfaces", "power_ports", "power_outlets", "cables" }

EmptyNb == [c \in Collections |-> <<>>]

\* The context threaded through a helper: the remote state, whether an
\* exception is propagating, the number of remote calls issued, the index of
\* the call that fails (0: none), whether the failing write was applied
\* before the error surfaced, and the write calls issued.
NewCtx(remote, failAt, applied) ==
    [nb |-> remote, ok |-> TRUE, n |-> 0, failAt |-> failAt,
     applied |-> applied, writes |-> <<>>]

\* endpoint.get(**key): the first record whose fields equal the filter's, or
\* None
EndpointGet(ctx, coll, key) ==
    IF ~ctx.ok THEN [ctx |-> ctx, ret |-> None]
    ELSE IF ctx.n + 1 = ctx.failAt
    THEN [ctx |-> [ctx EXCEPT !.n = @ + 1, !.ok = FALSE], ret |-> None]
    ELSE LET recs == ctx.nb[coll]
             hits == {i \in 1..Len(recs) :
                         \A f \in DOMAIN key : recs[i][f] = key[f]}
         IN [ctx |-> [ctx EXCEPT !.n = @ + 1],
             ret |-> IF hits = {} THEN None ELSE recs[Min(hits)]]

\* list(endpoint.filter(**key)): the records whose fields equal the filter's
EndpointFilter(ctx, coll, key) ==
    IF ~ctx.ok THEN [ctx |-> ctx, ret |-> <<>>]
    ELSE IF ctx.n + 1 = ctx.failAt
    THEN [ctx |-> [ctx EXCEPT !.n = @ + 1, !.ok = FALSE], ret |-> <<>>]
    ELSE [ctx |-> [ctx EXCEPT !.n = @ + 1],
          ret |-> SelectSeq(ctx.nb[coll],
                            LAMBDA r : \A f \in DOMAIN key : r[f] = key[f])]

\* the fields the service fills in when a create payload leaves them out
ServerDefaults(coll) ==
    CASE coll = "custom_field_choice_sets" -> [base_choices |-> <<>>]
      [] coll = "custom_fields" -> [choice_set |-> 0]
      [] coll \in {"interfaces", "power_ports", "power_outlets"} -> [cable |-> 0]
      [] OTHER -> <<>>

\* the collection holding the terminations of a cable's object_type
TerminationCollection(object_type) ==
    CASE object_type = "dcim.interface" -> "interfaces"
      [] object_type = "dcim.powerport" -> "power_ports"
      [] object_type = "dcim.poweroutlet" -> "power_outlets"

\* the termination descriptors of a cable payload
TerminationsOf(cable) ==
    { cable.a_terminations[i] : i \in 1..Len(cable.a_terminations) } \cup
    { cable.b_terminations[i] : i \in 1..Len(cable.b_terminations) }

\* whether the service holds a cable on the termination a descriptor names
HostsCable(remote, t) ==
    \E i \in 1..Len(remote["cables"]) : t \in TerminationsOf(remote["cables"][i])

\* the service refuses (400) a cable on a termination that hosts one
ServerRejects(remote, coll, attrs) ==
    coll = "cables" /\ \E t \in TerminationsOf(attrs) : HostsCable(remote, t)

\* the service stores a record; a stored cable shows as the `cable` field of
\* the terminations it names
ServerStore(remote, coll, obj) ==
    LET added == [remote EXCEPT ![coll] = Append(@, obj)]
    IN IF coll # "cables" THEN added
       ELSE [c \in DOMAIN added |->
               [i \in 1..Len(added[c]) |->
                   IF \E t \in TerminationsOf(obj) :
                          /\ c = TerminationCollection(t.object_type)
                          /\ added[c][i].id = t.object_id
                   THEN [added[c][i] EXCEPT !.cable = obj.id]
                   ELSE added[c][i]]]

\* endpoint.create(attrs): the service stores the attributes under a new
\* identity and answers with the stored record, or refuses
EndpointCreate(ctx, coll, attrs) ==
    IF ~ctx.ok THEN [ctx |-> ctx, ret |-> None]
    ELSE LET recs   == ctx.nb[coll]
             obj    == [id |-> Len(recs) + 1] @@ attrs @@ ServerDefaults(coll)
             call   == [op |-> "create", coll |-> coll, id |-> obj.id]
             refused == ServerRejects(ctx.nb, coll, attrs)
             fails  == ctx.n + 1 = ctx.failAt
         IN [ctx |-> [ctx EXCEPT !.n = @ + 1,
                                 !.ok = ~fails /\ ~refused,
                                 !.writes = Append(@, call),
                                 !.nb = IF refused \/ (fails /\ ~ctx.applied) THEN @
                                        ELSE ServerStore(@, coll, obj)],
             ret |-> IF fails \/ refused THEN None ELSE obj]

\* endpoint.update([{id, ...patch}])[0] and PATCH <url>/<id>/: the service
\* overwrites the submitted fields of the record and answers with the record
EndpointUpdate(ctx, coll, id, patch) ==
    IF ~ctx.ok THEN [ctx |-> ctx, ret |-> None]
    ELSE LET recs   == ctx.nb[coll]
             obj    == patch @@ recs[id]
             call   == [op |-> "update", coll |-> coll, id |-> id]
             stored == [ctx.nb EXCEPT ![coll][id] = obj]
             fails  == ctx.n + 1 = ctx.failAt
         IN [ctx |-> [ctx EXCEPT !.n = @ + 1,
                                 !.ok = ~fails,
                                 !.writes = Append(@, call),
                                 !.nb = IF fails /\ ~ctx.applied THEN @ ELSE stored],
             ret |-> IF fails THEN None ELSE obj]

\* the create / update calls among a sequence of write calls
CallsOf(writes, op, coll) ==
    {i \in 1..Len(writes) : writes[i].op = op /\ writes[i].coll = coll}

-----------------------------------------------------------------------------
(* utilities *)

\* the result of the lookup ignored: the resource is created on every call
get_or_create_always_creates(ctx, coll, attrs) ==
    LET g == EndpointGet(ctx, coll, [name |-> attrs.name])
    IN IF ~g.ctx.ok THEN g
       ELSE EndpointCreate(g.ctx, coll, attrs)

\* get_or_create(endpoint, **attrs): look up by name, else by slug; create
\* when the lookup finds nothing
get_or_create(ctx, coll, attrs) ==
    LET key == IF Truthy(attrs.name) THEN [name |-> attrs.name]
               ELSE IF Truthy(attrs.slug) THEN [slug |-> attrs.slug]
               ELSE <<>>
        g == EndpointGet(ctx, coll, key)
    IN IF ~g.ctx.ok THEN g
       ELSE IF g.ret # None THEN g
       ELSE EndpointCreate(g.ctx, coll, attrs)

\* the characters slugify keeps
SlugLetters == "abcdefghijklmnopqrstuvwxyz"
SlugDigits == "0123456789"
SlugUpper == "ABCDEFGHIJKLMNOPQRSTUVWXYZ"

\* the position of character c in string s, 0 when it does not occur
IndexIn(s, c) ==
    IF \E i \in 1..Len(s) : SubSeq(s, i, i) = c
    THEN CHOOSE i \in 1..Len(s) : SubSeq(s, i, i) = c
    ELSE 0

\* one character of a slug: letters lower-cased, digits kept, the rest "-"
SlugChar(c) ==
    IF IndexIn(SlugLetters, c) > 0 \/ IndexIn(SlugDigits, c) > 0 THEN c
    ELSE IF IndexIn(SlugUpper, c) > 0
    THEN SubSeq(SlugLetters, IndexIn(SlugUpper, c), IndexIn(SlugUpper, c))
    ELSE "-"

\* slugify(text) of python-slugify on ASCII text: lower-case, every run of
\* other characters one "-", none at either end
RECURSIVE SlugFrom(_, _, _)
SlugFrom(text, i, acc) ==
    IF i > Len(text)
    THEN IF acc # "" /\ SubSeq(acc, Len(acc), Len(acc)) = "-"
         THEN SubSeq(acc, 1, Len(acc) - 1) ELSE acc
    ELSE LET c == SlugChar(SubSeq(text, i, i))
         IN IF c = "-" /\ (acc = "" \/ SubSeq(acc, Len(acc), Len(acc)) = "-")
            THEN SlugFrom(text, i + 1, acc)
            ELSE SlugFrom(text, i + 1, acc \o c)

slugify(text) == SlugFrom(text, 1, "")

\* ensure_tag(name, slug_)
ensure_tag(ctx, name, slug_) ==
    LET g == EndpointGet(ctx, "tags", [slug |-> slug_])
    IN IF ~g.ctx.ok THEN g
       ELSE IF g.ret # None THEN g
       ELSE EndpointCreate(g.ctx, "tags", [name |-> name, slug |-> slug_])

\* ensure_device_role(name, slug_)
ensure_device_role(ctx, name, slug_) ==
    LET g == EndpointGet(ctx, "device_roles", [slug |-> slug_])
    IN IF ~g.ctx.ok THEN g
       ELSE IF g.ret # None THEN g
       ELSE EndpointCreate(g.ctx, "device_roles", [name |-> name, slug |-> slug_])

\* ensure_manufacturer(name)
ensure_manufacturer(ctx, name) ==
    get_or_create(ctx, "manufacturers", [name |-> name, slug |-> slugify(name)])

\* ensure_device_type(manufacturer, model, u=1, full_depth=True)
ensure_device_type(ctx, manufacturer, model, u, full_depth) ==
    LET slug_ == slugify(model)
        g == EndpointGet(ctx, "device_types", [slug |-> slug_])
    IN IF ~g.ctx.ok THEN g
       ELSE IF g.ret # None THEN g
       ELSE EndpointCreate(g.ctx, "device_types",
                [manufacturer |-> manufacturer.id, model |-> model, slug |-> slug_,
                 u_height |-> u, is_full_depth |-> full_depth])

-----------------------------------------------------------------------------
(* CustomFieldChoiceSet *)

\* A choice as the service renders it is a record [form, value, label]:
\* form "pair" is the list ["gpu", "gpu"], form "dict" the object
\* {"value": .., "label": ..} whose label may be Absent.
Pair(v, l) == [form |-> "pair", value |-> v, label |-> l]

\* the read-only field `choices` of a choice set: base choices, then extra
ServerChoices(cs) == cs.base_choices \o cs.extra_choices

\* _vals_from_choices(choices)
vals_from_choices(choices) ==
    { choices[i].value : i \in {j \in 1..Len(choices) :
                                   choices[j].form \in {"pair", "dict"}} }

\* the existing entries left out of the patch: the update clobbers them
norm_extra_clobbers(current_extra) == <<>>

\* the loop building norm_extra: pairs are kept, records become
\* [value, label or value], anything else is skipped
RECURSIVE norm_extra(_)
norm_extra(current_extra) ==
    IF current_extra = <<>> THEN <<>>
    ELSE LET c == Head(current_extra)
             rest == norm_extra(Tail(current_extra))
         IN IF c.form = "pair" THEN <<Pair(c.value, c.label)>> \o rest
            ELSE IF c.form = "dict"
            THEN <<Pair(c.value, IF c.label = Absent THEN c.value ELSE c.label)>> \o rest
            ELSE rest

\* the missing list that never looks at what the set holds
missing_values_all_of_them(values, existing_vals) == values

\* [v for v in values if v not in existing_vals]
missing_values(values, existing_vals) ==
    SelectSeq(values, LAMBDA v : v \notin existing_vals)

\* [[v, v] for v in values]
pairs_of(values) == [i \in 1..Len(values) |-> Pair(values[i], values[i])]

\* ensure_choice_set, structured-client path
ensure_choice_set_pynetbox(ctx, name, values) ==
    LET g  == EndpointGet(ctx, "custom_field_choice_sets", [name |-> name])
        cs == g.ret
        missing == missing_values(values, vals_from_choices(ServerChoices(cs)))
    IN IF ~g.ctx.ok THEN g
       ELSE IF cs # None
       THEN IF missing = <<>> THEN g
            ELSE EndpointUpdate(g.ctx, "custom_field_choice_sets", cs.id,
                    [extra_choices |-> norm_extra(cs.extra_choices) \o pairs_of(missing)])
       ELSE EndpointCreate(g.ctx, "custom_field_choice_sets",
                    [name |-> name, extra_choices |-> pairs_of(values)])

\* the fallback path patching the existing entries as they are rendered
ensure_choice_set_raw_unnormalized(ctx, name, values) ==
    LET r  == EndpointGet(ctx, "custom_field_choice_sets", [name |-> name])
        cs == r.ret
        missing == missing_values(values, vals_from_choices(ServerChoices(cs)))
    IN IF ~r.ctx.ok THEN r
       ELSE IF cs # None
       THEN IF missing = <<>> THEN r
            ELSE EndpointUpdate(r.ctx, "custom_field_choice_sets", cs.id,
                    [extra_choices |-> cs.extra_choices \o pairs_of(missing)])
       ELSE EndpointCreate(r.ctx, "custom_field_choice_sets",
                    [name |-> name, extra_choices |-> pairs_of(values)])

\* ensure_choice_set, raw-HTTP fallback path
ensure_choice_set_raw(ctx, name, values) ==
    LET r  == EndpointGet(ctx, "custom_field_choice_sets", [name |-> name])
        cs == r.ret
        missing == missing_values(values, vals_from_choices(ServerChoices(cs)))
        patch == [extra_choices |-> norm_extra(cs.extra_choices) \o pairs_of(missing)]
    IN IF ~r.ctx.ok THEN r
       ELSE IF cs # None
       THEN IF missing = <<>> THEN r
            ELSE EndpointUpdate(r.ctx, "custom_field_choice_sets", cs.id, patch)
       ELSE EndpointCreate(r.ctx, "custom_field_choice_sets",
                    [name |-> name, extra_choices |-> pairs_of(values)])

\* ensure_choice_set(name, values)
ensure_choice_set(ctx, name, values) ==
    IF has_choice_sets THEN ensure_choice_set_pynetbox(ctx, name, values)
    ELSE ensure_choice_set_raw(ctx, name, values)

-----------------------------------------------------------------------------
(* Custom fields (devices) *)

CF_DEVICE_OBJECT_TYPES == <<"dcim.device">>

\* ensure_cf_text with an update path: a field of another type is retyped
ensure_cf_text_retypes(ctx, name, label) ==
    LET g == EndpointGet(ctx, "custom_fields", [name |-> name])
        payload == [name |-> name, type |-> "text", label |-> label,
                    required |-> FALSE, object_types |-> CF_DEVICE_OBJECT_TYPES]
    IN IF ~g.ctx.ok THEN g
       ELSE IF g.ret = None THEN EndpointCreate(g.ctx, "custom_fields", payload)
       ELSE IF g.ret.type # "text"
       THEN EndpointUpdate(g.ctx, "custom_fields", g.ret.id, payload)
       ELSE g

\* ensure_cf_text(name, label)
ensure_cf_text(ctx, name, label) ==
    LET g == EndpointGet(ctx, "custom_fields", [name |-> name])
        payload == [name |-> name, type |-> "text", label |-> label,
                    required |-> FALSE, object_types |-> CF_DEVICE_OBJECT_TYPES]
    IN IF ~g.ctx.ok THEN g
       ELSE IF g.ret # None THEN g
       ELSE EndpointCreate(g.ctx, "custom_fields", payload)

\* ensure_cf_int(name, label)
ensure_cf_int(ctx, name, label) ==
    LET g == EndpointGet(ctx, "custom_fields", [name |-> name])
        payload == [name |-> name, type |-> "integer", label |-> label,
                    required |-> FALSE, object_types |-> CF_DEVICE_OBJECT_TYPES]
    IN IF ~g.ctx.ok THEN g
       ELSE IF g.ret # None THEN g
       ELSE EndpointCreate(g.ctx, "custom_fields", payload)

\* the binding compared with the wrong identity: the field's own id
\* instead of its choice set's
current_cs_id_of_field(cf) == cf.id

\* current_cs_id: the identity of the choice set a field is bound to, None
\* (0) when it is bound to none
current_cs_id(cf) == cf.choice_set

\* ensure_cf_select(name, label, values, choice_set_name=None)
ensure_cf_select(ctx, name, label, values, choice_set_name) ==
    LET csn == IF Truthy(choice_set_name) THEN choice_set_name ELSE name
        c == ensure_choice_set(ctx, csn, values)
        cs_id == c.ret.id
        g == EndpointGet(c.ctx, "custom_fields", [name |-> name])
        cf == g.ret
        payload == [name |-> name, type |-> "select", label |-> label,
                    required |-> FALSE, object_types |-> CF_DEVICE_OBJECT_TYPES,
                    choice_set |-> cs_id, selection_mode |-> "single"]
    IN IF ~c.ctx.ok THEN c
       ELSE IF ~g.ctx.ok THEN g
       ELSE IF cf = None THEN EndpointCreate(g.ctx, "custom_fields", payload)
       ELSE IF current_cs_id(cf) # cs_id
       THEN EndpointUpdate(g.ctx, "custom_fields", cf.id, payload)
       ELSE g

-----------------------------------------------------------------------------
(* devices *)

\* pat in s
Contains(s, pat) ==
    \E i \in 1..(Len(s) - Len(pat) + 1) : SubSeq(s, i, i + Len(pat) - 1) = pat

\* the role chosen by the "Switch" substring alone
device_role_id_switch_only(dt, ROLE_SERVER, ROLE_NETWORK) ==
    LET model == IF "model" \in DOMAIN dt /\ dt.model # "" THEN dt.model
                 ELSE IF "display" \in DOMAIN dt THEN dt.display ELSE ""
    IN IF Contains(model, "Switch") THEN ROLE_NETWORK.id ELSE ROLE_SERVER.id

\* the role of a device, from the model label of its device type
device_role_id(dt, ROLE_SERVER, ROLE_NETWORK) ==
    LET model == IF "model" \in DOMAIN dt /\ dt.model # "" THEN dt.model
                 ELSE IF "display" \in DOMAIN dt THEN dt.display ELSE ""
    IN IF Contains(model, "Switch") \/ Contains(model, "PDU")
       THEN ROLE_NETWORK.id ELSE ROLE_SERVER.id

\* ensure_device(name, dt, ru, tags, cf); globals is the record of the
\* module-level variables ROLE_SERVER, ROLE_NETWORK, site and rack
ensure_device(ctx, globals, name, dt, ru, tags, cf) ==
    LET g == EndpointGet(ctx, "devices", [name |-> name])
    IN IF ~g.ctx.ok THEN g
       ELSE IF g.ret # None THEN g
       ELSE EndpointCreate(g.ctx, "devices",
                [name |-> name, device_type |-> dt.id,
                 role |-> device_role_id(dt, globals.ROLE_SERVER, globals.ROLE_NETWORK),
                 site |-> globals.site.id, rack |-> globals.rack.id,
                 position |-> ru, face |-> "front",
                 tags |-> [i \in 1..Len(tags) |-> tags[i].id],
                 custom_fields |-> cf])

-----------------------------------------------------------------------------
(* metrics *)

\* rack_watts += int(cf.get("estimated_watts") or 0), over the devices
RECURSIVE sum_estimated_watts(_)
sum_estimated_watts(devices) ==
    IF devices = <<>> THEN 0
    ELSE LET cf == Head(devices).custom_fields
             w  == IF "estimated_watts" \in DOMAIN cf THEN cf.estimated_watts ELSE 0
         IN w + sum_estimated_watts(Tail(devices))

\* the roll-up taken over every device the service holds
rack_power_all_devices(ctx, rack) ==
    LET f == EndpointFilter(ctx, "devices", <<>>)
    IN [ctx |-> f.ctx, ret |-> [id |-> 0, rack_watts |-> sum_estimated_watts(f.ret)]]

\* the rack power roll-up: the devices of the rack are listed and summed
rack_power(ctx, rack) ==
    LET f == EndpointFilter(ctx, "devices", [rack |-> rack.id])
    IN [ctx |-> f.ctx, ret |-> [id |-> 0, rack_watts |-> sum_estimated_watts(f.ret)]]

\* round(100 * used / total, 1), in tenths of a percent: the nearest tenth,
\* the even one when both are as near
round_percent_tenths(used, total) ==
    LET q == (1000 * used) \div total
        r == (1000 * used) % total
    IN IF 2 * r > total \/ (2 * r = total /\ q % 2 = 1) THEN q + 1 ELSE q

\* every interface counted as used, whether it carries a cable or not
used_ports_all(all_tor_ifaces) == Len(all_tor_ifaces)

\* len([i for i in all_tor_ifaces if getattr(i, 'cable', None)])
used_ports(all_tor_ifaces) ==
    Len(SelectSeq(all_tor_ifaces, LAMBDA i : i.cable # 0))

\* ToR port utilization
tor_utilization(ctx, tor) ==
    LET f == EndpointFilter(ctx, "interfaces", [device |-> tor.id])
        total == Len(f.ret)
        used == used_ports(f.ret)
    IN [ctx |-> f.ctx,
        ret |-> [id |-> 0, used_ports |-> used, total_ports |-> total,
                 util |-> IF total # 0 THEN round_percent_tenths(used, total) ELSE 0]]

-----------------------------------------------------------------------------
(* interfaces & power *)

\* Strings whose characters matter (speed hints, interface names) are
\* sequences of one-character strings.
UpperCase == << "A", "B", "C", "D", "E", "F", "G", "H", "I", "J", "K", "L", "M",
                "N", "O", "P", "Q", "R", "S", "T", "U", "V", "W", "X", "Y", "Z" >>
LowerCase == << "a", "b", "c", "d", "e", "f", "g", "h", "i", "j", "k", "l", "m",
                "n", "o", "p", "q", "r", "s", "t", "u", "v", "w", "x", "y", "z" >>

LowerChar(c) ==
    IF \E i \in 1..26 : UpperCase[i] = c
    THEN LowerCase[CHOOSE i \in 1..26 : UpperCase[i] = c]
    ELSE c

\* str.lower()
lower(s) == [i \in 1..Len(s) |-> LowerChar(s[i])]

\* the 10G rule tested before the 100G rule
normalize_iface_type_10g_first(hint) ==
    IF hint = <<>> THEN "other"
    ELSE LET s == lower(hint)
         IN IF Contains(s, <<"1","0","g">>) THEN "10gbase-x-sfpp"
            ELSE IF Contains(s, <<"1","0","0","g">>) THEN "100gbase-x-qsfp28"
            ELSE IF Contains(s, <<"2","5","g">>) THEN "25gbase-x-sfp28"
            ELSE IF Contains(s, <<"4","0","g">>) THEN "40gbase-x-qsfpp"
            ELSE IF Contains(s, <<"1","g">>) \/ Contains(s, <<"1","0","0","0">>)
                 THEN "1000base-t"
            ELSE IF \/ Contains(s, <<"l","a","g">>)
                    \/ Contains(s, <<"b","o","n","d">>)
                    \/ Contains(s, <<"p","o","r","t","-","c","h","a","n","n","e","l">>)
                 THEN "lag"
            ELSE "other"

\* _normalize_iface_type(hint); None and "" are both the empty sequence
normalize_iface_type(hint) ==
    IF hint = <<>> THEN "other"
    ELSE LET s == lower(hint)
         IN IF Contains(s, <<"1","0","0","g">>) THEN "100gbase-x-qsfp28"
            ELSE IF Contains(s, <<"2","5","g">>) THEN "25gbase-x-sfp28"
            ELSE IF Contains(s, <<"4","0","g">>) THEN "40gbase-x-qsfpp"
            ELSE IF Contains(s, <<"1","0","g">>) THEN "10gbase-x-sfpp"
            ELSE IF Contains(s, <<"1","g">>) \/ Contains(s, <<"1","0","0","0">>)
                 THEN "1000base-t"
            ELSE IF \/ Contains(s, <<"l","a","g">>)
                    \/ Contains(s, <<"b","o","n","d">>)
                    \/ Contains(s, <<"p","o","r","t","-","c","h","a","n","n","e","l">>)
                 THEN "lag"
            ELSE "other"

\* ensure_iface(device, name, iface_type_hint=None, mgmt=False)
ensure_iface(ctx, device, name, iface_type_hint, mgmt) ==
    LET g == EndpointGet(ctx, "interfaces", [device |-> device.id, name |-> name])
        nb_type == normalize_iface_type(
                       IF iface_type_hint # <<>> THEN iface_type_hint ELSE name)
    IN IF ~g.ctx.ok THEN g
       ELSE IF g.ret # None THEN g
       ELSE EndpointCreate(g.ctx, "interfaces",
                [device |-> device.id, name |-> name, type |-> nb_type,
                 mgmt_only |-> mgmt])

\* ensure_power_port(device, name, maximum_draw=1000, allocated_draw=800)
ensure_power_port(ctx, device, name, maximum_draw, allocated_draw) ==
    LET g == EndpointGet(ctx, "power_ports", [device |-> device.id, name |-> name])
    IN IF ~g.ctx.ok THEN g
       ELSE IF g.ret # None THEN g
       ELSE EndpointCreate(g.ctx, "power_ports",
                [device |-> device.id, name |-> name,
                 maximum_draw |-> maximum_draw, allocated_draw |-> allocated_draw])

\* ensure_power_outlet(device, name)
ensure_power_outlet(ctx, device, name) ==
    LET g == EndpointGet(ctx, "power_outlets", [device |-> device.id, name |-> name])
    IN IF ~g.ctx.ok THEN g
       ELSE IF g.ret # None THEN g
       ELSE EndpointCreate(g.ctx, "power_outlets", [device |-> device.id, name |-> name])

-----------------------------------------------------------------------------
(* cable helpers *)

\* the cable looked for under an attribute the record does not carry
has_cable_wrong_attribute(termination_obj) ==
    "cables" \in DOMAIN termination_obj /\ termination_obj.cables # 0

\* _has_cable(termination_obj): the cable attribute of the object the caller
\* holds, as it was when the object was fetched
has_cable(termination_obj) ==
    "cable" \in DOMAIN termination_obj /\ termination_obj.cable # 0

\* cable_ifaces(a_iface, b_iface)
cable_ifaces(ctx, a_iface, b_iface) ==
    IF has_cable(a_iface) \/ has_cable(b_iface) THEN [ctx |-> ctx, ret |-> None]
    ELSE EndpointCreate(ctx, "cables",
            [a_terminations |-> << [object_type |-> "dcim.interface",
                                    object_id |-> a_iface.id] >>,
             b_terminations |-> << [object_type |-> "dcim.interface",
                                    object_id |-> b_iface.id] >>])

\* cable_power(power_port, power_outlet)
cable_power(ctx, power_port, power_outlet) ==
    IF has_cable(power_port) \/ has_cable(power_outlet) THEN [ctx |-> ctx, ret |-> None]
    ELSE EndpointCreate(ctx, "cables",
            [a_terminations |-> << [object_type |-> "dcim.powerport",
                                    object_id |-> power_port.id] >>,
             b_terminations |-> << [object_type |-> "dcim.poweroutlet",
                                    object_id |-> power_outlet.id] >>])

-----------------------------------------------------------------------------
(* robust trace (raw REST) *)

\* The result of a call that may raise: the text it returned or the lines it
\* printed, and whether an exception propagates out of it.
Returned(x) == [v |-> x, raised |-> FALSE]
Raised(x) == [v |-> x, raised |-> TRUE]

\* _term_to_str(term)
term_to_str(term) ==
    IF ~PyTruthy(term) THEN Returned("-")
    ELSE IF term.k = "dict"
    THEN LET dev == PyOr(PyGet(term, "device"), JDict(<<>>))
         IN IF dev.k # "dict" THEN Raised("")   \* dev.get: AttributeError
            ELSE LET devname == PyOr(PyOr(PyGet(dev, "name"), PyGet(dev, "display")),
                                     JStr(""))
                     objtype == PyOr(PyOr(PyOr(PyGet(term, "obj_type"),
                                               PyGet(term, "type")),
                                          PyGet(term, "object_type")), JStr("term"))
                     name == PyOr(PyOr(PyGet(term, "name"), PyGet(term, "display")),
                                  JStr(""))
                 IN IF PyTruthy(devname)
                    THEN Returned(PyStr(objtype) \o ":" \o PyStr(name) \o "@"
                                  \o PyStr(devname))
                    ELSE Returned(PyStr(objtype) \o ":" \o PyStr(name))
    ELSE Returned(PyStr(term))

\* print(f"   {_term_to_str(left)}  --[{label}]-->  {_term_to_str(right)}")
print_hop(left, label, right) ==
    LET l == term_to_str(left)
        r == term_to_str(right)
    IN IF l.raised \/ r.raised THEN Raised(<<>>)
       ELSE Returned(<< "   " \o l.v \o "  --[" \o PyStr(label) \o "]-->  " \o r.v >>)

\* print(f"   {_term_to_str(x)}")
print_term(x) ==
    LET t == term_to_str(x)
    IN IF t.raised THEN Raised(<<>>) ELSE Returned(<< "   " \o t.v >>)

\* len(hop) is defined
HasLen(j) == j.k \in {"str", "list", "dict"}

\* len(hop)
PyLen(j) ==
    CASE j.k = "str" -> Len(j.s)
      [] j.k = "list" -> Len(j.items)
      [] j.k = "dict" -> Cardinality(DOMAIN j.fields)

\* left, cable, right = hop: the items of a list, the characters of a
\* string, the keys of a dict
Unpack(j) ==
    CASE j.k = "list" -> j.items
      [] j.k = "str" -> [i \in 1..Len(j.s) |-> JStr(SubSeq(j.s, i, i))]
      [] j.k = "dict" ->
            LET keys == SelectSeq(JsonKeys, LAMBDA key : key \in DOMAIN j.fields)
            IN [i \in 1..Len(keys) |-> JStr(keys[i])]

\* the body of the loop of case A
case_a_hop(hop) ==
    IF ~HasLen(hop) THEN Raised(<<>>)   \* len(hop): TypeError
    ELSE IF PyLen(hop) = 3
    THEN LET left  == Unpack(hop)[1]
             cable == Unpack(hop)[2]
             right == Unpack(hop)[3]
             label == IF cable.k = "dict" THEN PyGet(cable, "label") ELSE JStr("cable")
         IN print_hop(left, label, right)
    ELSE print_term(hop)

\* the body of the loop of case B
case_b_seg(seg) ==
    IF seg.k # "dict" THEN Raised(<<>>)   \* seg.get: AttributeError
    ELSE LET left  == PyOr(PyOr(PyGet(seg, "termination_a"), PyGet(seg, "a")),
                           PyGet(seg, "from"))
             right == PyOr(PyOr(PyGet(seg, "termination_b"), PyGet(seg, "b")),
                           PyGet(seg, "to"))
             cable == PyOr(PyGet(seg, "cable"), JDict(<<>>))
         IN IF cable.k # "dict" THEN Raised(<<>>)   \* cable.get: AttributeError
            ELSE LET label == PyOr(PyOr(PyGet(cable, "label"), PyGet(cable, "display")),
                                   JStr("cable"))
                 IN IF PyTruthy(left) \/ PyTruthy(right)
                    THEN print_hop(left, label, right)
                    ELSE print_term(seg)

\* the body of the loop of case C
case_c_item(item) == print_term(item)

\* the body of a loop, by case
loop_body(case, x) ==
    CASE case = "A" -> case_a_hop(x)
      [] case = "B" -> case_b_seg(x)
      [] case = "C" -> case_c_item(x)

\* for x in tr: <body>, which ends at the first exception
RECURSIVE trace_loop(_, _)
trace_loop(case, items) ==
    IF items = <<>> THEN Returned(<<>>)
    ELSE LET first == loop_body(case, Head(items))
         IN IF first.raised THEN first
            ELSE LET rest == trace_loop(case, Tail(items))
                 IN [v |-> first.v \o rest.v, raised |-> rest.raised]

\* the raw dump: print("   [raw trace]"); pprint.pp(tr)
raw_dump(body) == Returned(<< "   [raw trace]", PyRepr(body) >>)

\* a single record taken for a sequence of segments
trace_case_record_as_sequence(body) ==
    IF body.k = "list" /\ body.items # <<>> /\ body.items[1].k = "list" THEN "A"
    ELSE IF body.k = "list" /\ body.items # <<>> /\ body.items[1].k = "dict" THEN "B"
    ELSE IF body.k \in {"list", "dict"} THEN "C"
    ELSE "raw"

\* the dispatch on the shape of the body
trace_case(body) ==
    IF body.k = "list" /\ body.items # <<>> /\ body.items[1].k = "list" THEN "A"
    ELSE IF body.k = "list" /\ body.items # <<>> /\ body.items[1].k = "dict" THEN "B"
    ELSE IF body.k = "list" THEN "C"
    ELSE "raw"

\* print_interface_trace_raw, from the decoded body on
print_interface_trace_raw(body, title) ==
    LET rendered == IF trace_case(body) = "raw" THEN raw_dump(body)
                    ELSE trace_loop(trace_case(body), body.items)
    IN [v |-> << title >> \o rendered.v, raised |-> rendered.raised]

-----------------------------------------------------------------------------
(* Specification SpecEnsure: get_or_create invoked repeatedly with the same
   arguments on a collection in an arbitrary initial state *)

KeyNames == {"n1", "n2"}
KeySlugs == {"s1", "s2"}

\* the attributes a caller may pass: at least one of name / slug is usable
EnsureAttrs ==
    { a \in [name : KeyNames \cup {Absent, ""}, slug : KeySlugs \cup {Absent, ""},
             u_height : {42, 48}] : Truthy(a.name) \/ Truthy(a.slug) }

\* initial collections: identities 1..n, names unique, slugs unique
InitResources ==
    { s \in UNION { [1..n -> [id : 1..MaxInit, name : KeyNames \cup {""},
                              slug : KeySlugs \cup {""}, u_height : {42}]]
                    : n \in 0..MaxInit } :
        /\ \A i \in DOMAIN s : s[i].id = i
        /\ \A i, j \in DOMAIN s :
              i # j => /\ (Truthy(s[i].name) => s[i].name # s[j].name)
                       /\ (Truthy(s[i].slug) => s[i].slug # s[j].slug) }

InitEnsure ==
    /\ nb \in { [EmptyNb EXCEPT !["sites"] = s] : s \in InitResources }
    /\ last \in { [op |-> "none", attrs |-> a, ret |-> None, writes |-> <<>>,
                   prev |-> None] : a \in EnsureAttrs }
    /\ ncalls = 0
    /\ run = NoRun
    /\ has_choice_sets = TRUE
    /\ env = <<>>
    /\ tr = JNull

Ensure ==
    /\ last.op \in {"none", "get_or_create"}
    /\ ncalls < MaxCalls
    /\ LET r == get_or_create(NewCtx(nb, 0, FALSE), "sites", last.attrs)
       IN /\ nb' = r.ctx.nb
          /\ last' = [op |-> "get_or_create", attrs |-> last.attrs, ret |-> r.ret,
                      writes |-> last.writes \o r.ctx.writes,
                      prev |-> IF last.op = "none" THEN None ELSE last.ret]
    /\ ncalls' = ncalls + 1
    /\ UNCHANGED <<has_choice_sets, env, tr, run>>

NextEnsure == Ensure

SpecEnsure == InitEnsure /\ [][NextEnsure]_vars

\* C1: get_or_create invoked twice (or more) in a row with the same
\* arguments returns the same resource identity every time, and all the
\* invocations together issue at most one create call.
C1_EnsureTwiceSameIdentity ==
    (last.op = "get_or_create" /\ ncalls >= 2) =>
        /\ last.ret # None
        /\ last.ret.id = last.prev.id
        /\ Cardinality(CallsOf(last.writes, "create", "sites")) <= 1

\* the key was absent: the first invocation created, the second found it
C1_Witness ==
    /\ last.op = "get_or_create" /\ ncalls = 2
    /\ Cardinality(CallsOf(last.writes, "create", "sites")) = 1
    /\ last.ret.id = last.prev.id

-----------------------------------------------------------------------------
(* Specification SpecChoice: ensure_choice_set invoked on a service that
   holds no set of that name, or one whose choices are rendered as pairs or
   as records *)

ChoiceValues == {"a", "b", "c"}

\* the renderings of one choice with value v
ChoiceRenderings ==
    UNION { { Pair(v, v), Pair(v, "L"),
              [form |-> "dict", value |-> v, label |-> "L"],
              [form |-> "dict", value |-> v, label |-> Absent] } : v \in ChoiceValues }

\* sequences of at most n elements of S
SeqsUpTo(S, n) == UNION { [1..k -> S] : k \in 0..n }

NoDuplicateValue(choices) ==
    \A i, j \in DOMAIN choices : i # j => choices[i].value # choices[j].value

InitChoiceSets ==
    { <<>> } \cup
    { << [id |-> 1, name |-> "hpc_role", base_choices |-> b, extra_choices |-> e] >> :
        b \in { <<>>, << Pair("c", "c") >> },
        e \in { x \in SeqsUpTo(ChoiceRenderings, MaxInit) : NoDuplicateValue(x) } }

InitChoice ==
    /\ nb \in { [EmptyNb EXCEPT !["custom_field_choice_sets"] = s] : s \in InitChoiceSets }
    /\ last \in { [op |-> "none", name |-> "hpc_role", values |-> v, pre |-> EmptyNb,
                   ret |-> None, writes |-> <<>>] : v \in SeqsUpTo(ChoiceValues, MaxValues) }
    /\ ncalls = 0
    /\ run = NoRun
    /\ has_choice_sets \in BOOLEAN
    /\ env = <<>>
    /\ tr = JNull

EnsureChoiceSet ==
    /\ last.op \in {"none", "ensure_choice_set"}
    /\ ncalls < MaxCalls
    /\ LET r == ensure_choice_set(NewCtx(nb, 0, FALSE), last.name, last.values)
       IN /\ nb' = r.ctx.nb
          /\ last' = [last EXCEPT !.op = "ensure_choice_set", !.pre = nb,
                                  !.ret = r.ret, !.writes = r.ctx.writes]
    /\ ncalls' = ncalls + 1
    /\ UNCHANGED <<has_choice_sets, env, tr, run>>

NextChoice == EnsureChoiceSet

SpecChoice == InitChoice /\ [][NextChoice]_vars

\* the choice set of a given name held by a service state, or None
SetNamed(remote, name) ==
    LET sets == remote["custom_field_choice_sets"]
        hits == {i \in 1..Len(sets) : sets[i].name = name}
    IN IF hits = {} THEN None ELSE sets[Min(hits)]

\* the (value, label) content of a partition, whatever its rendering
Content(choices) ==
    [i \in 1..Len(choices) |->
        <<choices[i].value,
          IF choices[i].label = Absent THEN choices[i].value ELSE choices[i].label>>]

\* seq with the elements of S deleted, order kept
RECURSIVE Without(_, _)
Without(seq, S) ==
    IF seq = <<>> THEN <<>>
    ELSE IF Head(seq) \in S THEN Without(Tail(seq), S)
    ELSE <<Head(seq)>> \o Without(Tail(seq), S)

PreExtra == IF SetNamed(last.pre, last.name) = None THEN <<>>
            ELSE Content(SetNamed(last.pre, last.name).extra_choices)
PreValues == IF SetNamed(last.pre, last.name) = None THEN {}
             ELSE { c[1] : c \in { Content(ServerChoices(SetNamed(last.pre, last.name)))[i] :
                        i \in 1..Len(ServerChoices(SetNamed(last.pre, last.name))) } }
PostExtra == Content(SetNamed(nb, last.name).extra_choices)

\* C2: after ensure_choice_set the extra partition is the previous extra
\* partition, every entry kept in its place, followed by the requested
\* values the set did not hold, as (v, v) pairs in the order requested.
C2_MergeAppendsMissing ==
    last.op = "ensure_choice_set" =>
        /\ SetNamed(nb, last.name) # None
        /\ Len(PostExtra) >= Len(PreExtra)
        /\ SubSeq(PostExtra, 1, Len(PreExtra)) = PreExtra
        /\ SubSeq(PostExtra, Len(PreExtra) + 1, Len(PostExtra))
              = [i \in 1..Len(Without(last.values, PreValues)) |->
                    <<Without(last.values, PreValues)[i], Without(last.values, PreValues)[i]>>]

\* the example of the specification: extra [(a,a),(b,b)], desired [b,c]
C2_Witness ==
    /\ last.op = "ensure_choice_set" /\ ncalls = 1
    /\ PreExtra = << <<"a", "a">>, <<"b", "b">> >>
    /\ last.values = <<"b", "c">>
    /\ PostExtra = << <<"a", "a">>, <<"b", "b">>, <<"c", "c">> >>

\* the set existed and held every requested value
NothingMissing ==
    /\ last.op = "ensure_choice_set"
    /\ SetNamed(last.pre, last.name) # None
    /\ \A i \in 1..Len(last.values) : last.values[i] \in PreValues

\* C18: when the set exists and holds every requested value already,
\* ensure_choice_set returns the existing set, issues neither an update nor
\* a create, and the service holds what it held before, both partitions of
\* the set included.
C18_NothingMissingIsNoOp ==
    NothingMissing =>
        /\ last.ret = SetNamed(last.pre, last.name)
        /\ last.writes = <<>>
        /\ nb = last.pre

\* two values requested, one held in the base partition, one in the extra
\* partition under a label of its own
C18_Witness ==
    /\ NothingMissing
    /\ last.values = <<"c", "a">>
    /\ SetNamed(last.pre, last.name).base_choices = << Pair("c", "c") >>
    /\ SetNamed(last.pre, last.name).extra_choices = << Pair("a", "L") >>
    /\ last.writes = <<>>

\* C20: after any sequence of ensure_choice_set calls on a set that was
\* absent or whose extra partition held no value twice, no value occurs
\* more than once in the extra partition of the set, whatever the requested
\* values are, repeated or already held.
C20_ExtraHoldsNoValueTwice ==
    SetNamed(nb, last.name) # None =>
        \A i, j \in 1..Len(PostExtra) : i # j => PostExtra[i][1] # PostExtra[j][1]

-----------------------------------------------------------------------------
(* Specification SpecSelect: ensure_cf_select invoked on a service that may
   already hold choice sets and the custom field, bound or not *)

SelectSetNames == {"hpc_role", "roles"}

\* the choice sets held initially: any of the two names, in either order
InitSelectSets ==
    { s \in SeqsUpTo([id : 1..MaxInit, name : SelectSetNames,
                       base_choices : {<<>>},
                       extra_choices : {<<>>, << Pair("a", "a") >>}], MaxInit) :
        /\ \A i \in DOMAIN s : s[i].id = i
        /\ \A i, j \in DOMAIN s : i # j => s[i].name # s[j].name }

\* the custom fields held initially: none, or hpc_role as a text field or as
\* a select field bound to some choice-set identity
InitSelectFields ==
    { <<>> } \cup
    { << [id |-> 1, name |-> "hpc_role", type |-> "text", label |-> "HPC Role",
          required |-> FALSE, object_types |-> CF_DEVICE_OBJECT_TYPES,
          choice_set |-> 0] >> } \cup
    { << [id |-> 1, name |-> "hpc_role", type |-> "select", label |-> "HPC Role",
          required |-> FALSE, object_types |-> CF_DEVICE_OBJECT_TYPES,
          choice_set |-> k, selection_mode |-> "single"] >> : k \in 1..(MaxInit + 1) }

InitSelect ==
    /\ nb \in { r \in { [EmptyNb EXCEPT !["custom_field_choice_sets"] = s,
                                         !["custom_fields"] = f] :
                          s \in InitSelectSets, f \in InitSelectFields } :
                 \A i \in DOMAIN r["custom_fields"] :
                     r["custom_fields"][i].choice_set
                         <= Len(r["custom_field_choice_sets"]) }
    /\ last \in { [op |-> "none", name |-> "hpc_role", values |-> v,
                   choice_set_name |-> n, pre |-> EmptyNb,
                   ret |-> None, writes |-> <<>>] :
                 v \in SeqsUpTo({"a", "b"}, MaxValues),
                 n \in SelectSetNames \cup {Absent} }
    /\ ncalls = 0
    /\ run = NoRun
    /\ has_choice_sets \in BOOLEAN
    /\ env = <<>>
    /\ tr = JNull

EnsureCfSelect ==
    /\ last.op \in {"none", "ensure_cf_select"}
    /\ ncalls < MaxCalls
    /\ LET r == ensure_cf_select(NewCtx(nb, 0, FALSE), last.name, "HPC Role",
                                 last.values, last.choice_set_name)
       IN /\ nb' = r.ctx.nb
          /\ last' = [last EXCEPT !.op = "ensure_cf_select", !.pre = nb,
                                  !.ret = r.ret, !.writes = r.ctx.writes]
    /\ ncalls' = ncalls + 1
    /\ UNCHANGED <<has_choice_sets, env, tr, run>>

NextSelect == EnsureCfSelect

SpecSelect == InitSelect /\ [][NextSelect]_vars

\* the custom field of a given name held by a service state, or None
FieldNamed(remote, name) ==
    LET fs == remote["custom_fields"]
        hits == {i \in 1..Len(fs) : fs[i].name = name}
    IN IF hits = {} THEN None ELSE fs[Min(hits)]

\* the name of the choice set ensure_cf_select resolves
BackingSetName ==
    IF last.choice_set_name \in {Absent, ""} THEN last.name ELSE last.choice_set_name

FieldCreates == Cardinality(CallsOf(last.writes, "create", "custom_fields"))
FieldUpdates == Cardinality(CallsOf(last.writes, "update", "custom_fields"))

\* C8: ensure_select leaves the field bound to the identity of the choice set
\* of the resolved name; an absent field is created (one create, no update),
\* a field bound elsewhere is repointed by exactly one update, a field
\* already bound to that identity gets no create and no update.
C8_SelectBinding ==
    last.op = "ensure_cf_select" =>
        LET pre  == FieldNamed(last.pre, last.name)
            post == FieldNamed(nb, last.name)
            cs   == SetNamed(nb, BackingSetName)
        IN /\ cs # None /\ post # None
           /\ post.choice_set = cs.id
           /\ last.ret.id = post.id
           /\ pre = None => FieldCreates = 1 /\ FieldUpdates = 0
           /\ (pre # None /\ pre.choice_set # cs.id) =>
                    FieldCreates = 0 /\ FieldUpdates = 1
           /\ (pre # None /\ pre.choice_set = cs.id) =>
                    FieldCreates = 0 /\ FieldUpdates = 0 /\ post = pre

\* a field bound to another choice set was repointed by one update
C8_Witness ==
    /\ last.op = "ensure_cf_select"
    /\ FieldNamed(last.pre, last.name) # None
    /\ FieldNamed(last.pre, last.name).choice_set \notin {0, SetNamed(nb, BackingSetName).id}
    /\ FieldUpdates = 1 /\ FieldCreates = 0
    /\ FieldNamed(nb, last.name).choice_set = SetNamed(nb, BackingSetName).id

-----------------------------------------------------------------------------
(* Specification SpecIface: ensure_iface invoked with a hint made of
   fragments that hold the patterns of the rules, in either case *)

HintFragments ==
    { <<"1","0","0","g">>, <<"1","0","0","G">>, <<"2","5","g">>, <<"4","0","G">>,
      <<"1","0","g">>, <<"1","0","G">>, <<"1","g">>, <<"1","0","0","0">>,
      <<"l","a","g">>, <<"B","o","n","d">>,
      <<"p","o","r","t","-","c","h","a","n","n","e","l">>,
      <<"-","u","p","l","i","n","k">>, <<"1">>, <<"0">>, <<"g">>, <<"x">> }

RECURSIVE Concat(_)
Concat(seqs) == IF seqs = <<>> THEN <<>> ELSE Head(seqs) \o Concat(Tail(seqs))

\* the hints: no hint (None / ""), or up to MaxFragments fragments in a row
Hints == { Concat(fs) : fs \in SeqsUpTo(HintFragments, MaxFragments) }

IfaceNames == { <<"x","e","-","0","1">>, <<"e","t","h","0","-","2","5","G">>,
                <<"u","p","l","i","n","k","-","1">> }

InitIface ==
    /\ nb = EmptyNb
    /\ last \in { [op |-> "none", name |-> n, hint |-> h, pre |-> EmptyNb,
                   ret |-> None, writes |-> <<>>] : n \in IfaceNames, h \in Hints }
    /\ ncalls = 0
    /\ run = NoRun
    /\ has_choice_sets = TRUE
    /\ env = <<>>
    /\ tr = JNull

EnsureIface ==
    /\ last.op \in {"none", "ensure_iface"}
    /\ ncalls < MaxCalls
    /\ LET r == ensure_iface(NewCtx(nb, 0, FALSE), [id |-> 1], last.name,
                             last.hint, FALSE)
       IN /\ nb' = r.ctx.nb
          /\ last' = [last EXCEPT !.op = "ensure_iface", !.pre = nb,
                                  !.ret = r.ret, !.writes = r.ctx.writes]
    /\ ncalls' = ncalls + 1
    /\ UNCHANGED <<has_choice_sets, env, tr, run>>

NextIface == EnsureIface

SpecIface == InitIface /\ [][NextIface]_vars

\* the rules of the specification, in its order
IfaceRules ==
    << [pats |-> { <<"1","0","0","g">> }, type |-> "100gbase-x-qsfp28"],
       [pats |-> { <<"2","5","g">> }, type |-> "25gbase-x-sfp28"],
       [pats |-> { <<"4","0","g">> }, type |-> "40gbase-x-qsfpp"],
       [pats |-> { <<"1","0","g">> }, type |-> "10gbase-x-sfpp"],
       [pats |-> { <<"1","g">>, <<"1","0","0","0">> }, type |-> "1000base-t"],
       [pats |-> { <<"l","a","g">>, <<"b","o","n","d">>,
                   <<"p","o","r","t","-","c","h","a","n","n","e","l">> },
        type |-> "lag"] >>

\* pat occurs in s at position i, s taken lower-cased
OccursAt(s, i, pat) ==
    /\ i + Len(pat) - 1 <= Len(s)
    /\ \A k \in 1..Len(pat) : LowerChar(s[i + k - 1]) = pat[k]

RuleMatches(r, s) == \E pat \in IfaceRules[r].pats : \E i \in 1..Len(s) : OccursAt(s, i, pat)

\* the type of the first rule that matches, "other" when none does
FirstRuleType(s) ==
    IF \A r \in 1..Len(IfaceRules) : ~RuleMatches(r, s) THEN "other"
    ELSE IfaceRules[Min({r \in 1..Len(IfaceRules) : RuleMatches(r, s)})].type

\* C9: the type of an interface created by ensure_iface is the type of the
\* first rule, in the order 100g, 25g, 40g, 10g, (1g | 1000),
\* (lag | bond | port-channel), whose pattern occurs in the lower-cased
\* hint, else other; the hint "100g-uplink" gives 100gbase-x-qsfp28.
C9_FirstRuleWins ==
    last.op = "ensure_iface" =>
        /\ Len(nb["interfaces"]) = 1
        /\ nb["interfaces"][1].type =
               FirstRuleType(IF last.hint = <<>> THEN last.name ELSE last.hint)
        /\ last.hint = <<"1","0","0","g","-","u","p","l","i","n","k">>
              => nb["interfaces"][1].type = "100gbase-x-qsfp28"

\* the interface was created from the hint "100g-uplink"
C9_Witness ==
    /\ last.op = "ensure_iface"
    /\ last.hint = <<"1","0","0","g","-","u","p","l","i","n","k">>
    /\ CallsOf(last.writes, "create", "interfaces") # {}
    /\ last.ret.type = "100gbase-x-qsfp28"

-----------------------------------------------------------------------------
(* Specification SpecCable: cable_ifaces and cable_power invoked in any order
   on termination objects the script fetched earlier, over one or more runs *)

CableDevice == [id |-> 1]

\* the variables of the script that hold terminations
IfaceHandles == {"gpu1_p1", "gpu1_p2", "tor_port"}
PortHandles == {"gpu1_pp"}
OutletHandles == {"pdu_outlet1", "pdu_outlet2"}
Handles == IfaceHandles \cup PortHandles \cup OutletHandles

HandleName(h) ==
    CASE h = "gpu1_p1" -> <<"e","t","h","0","-","1","0","0","G">>
      [] h = "gpu1_p2" -> <<"e","t","h","1","-","1","0","0","G">>
      [] h = "tor_port" -> <<"x","e","-","0","1">>
      [] h = "gpu1_pp" -> <<"P","S","U","1">>
      [] h = "pdu_outlet1" -> <<"O","U","T","1">>
      [] h = "pdu_outlet2" -> <<"O","U","T","2">>

\* x = ensure_iface(..) / ensure_power_port(..) / ensure_power_outlet(..)
EnsureTermination(ctx, h) ==
    IF h \in IfaceHandles
    THEN ensure_iface(ctx, CableDevice, HandleName(h), <<"1","0","0","g">>, FALSE)
    ELSE IF h \in PortHandles
    THEN ensure_power_port(ctx, CableDevice, HandleName(h), 1000, 800)
    ELSE ensure_power_outlet(ctx, CableDevice, HandleName(h))

\* the service after a first run created every termination and no cable
RECURSIVE ProvisionTerminations(_, _)
ProvisionTerminations(ctx, hs) ==
    IF hs = {} THEN ctx
    ELSE LET h == CHOOSE x \in hs : TRUE
         IN ProvisionTerminations(EnsureTermination(ctx, h).ctx, hs \ {h})

NoCall == [op |-> "none", a |-> None, b |-> None, a_type |-> "", b_type |-> "",
           pre |-> EmptyNb, ret |-> None, writes |-> <<>>, ok |-> TRUE]

InitCable ==
    /\ nb = ProvisionTerminations(NewCtx(EmptyNb, 0, FALSE), Handles).nb
    /\ last = NoCall
    /\ ncalls = 0
    /\ run = NoRun
    /\ has_choice_sets = TRUE
    /\ env = [h \in Handles |-> None]
    /\ tr = JNull

\* a statement h = ensure_...(...): the variable holds the object as the
\* service rendered it at that moment
FetchTermination(h) ==
    /\ last.ok
    /\ LET r == EnsureTermination(NewCtx(nb, 0, FALSE), h)
       IN /\ nb' = r.ctx.nb
          /\ env' = [env EXCEPT ![h] = r.ret]
    /\ UNCHANGED <<last, ncalls, has_choice_sets, tr, run>>

\* a statement cable_ifaces(a, b)
CableIfaces(a, b) ==
    /\ last.ok
    /\ a # b /\ env[a] # None /\ env[b] # None
    /\ LET r == cable_ifaces(NewCtx(nb, 0, FALSE), env[a], env[b])
       IN /\ nb' = r.ctx.nb
          /\ last' = [op |-> "cable_ifaces", a |-> env[a], b |-> env[b],
                      a_type |-> "dcim.interface", b_type |-> "dcim.interface",
                      pre |-> nb, ret |-> r.ret, writes |-> r.ctx.writes,
                      ok |-> r.ctx.ok]
    /\ UNCHANGED <<ncalls, has_choice_sets, env, tr, run>>

\* a statement cable_power(power_port, power_outlet)
CablePower(p, o) ==
    /\ last.ok
    /\ env[p] # None /\ env[o] # None
    /\ LET r == cable_power(NewCtx(nb, 0, FALSE), env[p], env[o])
       IN /\ nb' = r.ctx.nb
          /\ last' = [op |-> "cable_power", a |-> env[p], b |-> env[o],
                      a_type |-> "dcim.powerport", b_type |-> "dcim.poweroutlet",
                      pre |-> nb, ret |-> r.ret, writes |-> r.ctx.writes,
                      ok |-> r.ctx.ok]
    /\ UNCHANGED <<ncalls, has_choice_sets, env, tr, run>>

\* the script ends (normally or on an exception) and is run again
RunAgain ==
    /\ last.op # "none"
    /\ env' = [h \in Handles |-> None]
    /\ last' = NoCall
    /\ UNCHANGED <<nb, ncalls, has_choice_sets, tr, run>>

NextCable ==
    \/ \E h \in Handles : FetchTermination(h)
    \/ \E a, b \in IfaceHandles : CableIfaces(a, b)
    \/ \E p \in PortHandles, o \in OutletHandles : CablePower(p, o)
    \/ RunAgain

SpecCable == InitCable /\ [][NextCable]_vars

\* the descriptors of the two terminations of the last connect call
LastA == [object_type |-> last.a_type, object_id |-> last.a.id]
LastB == [object_type |-> last.b_type, object_id |-> last.b.id]

\* C3 (as claimed): a connect call on a termination that already carries a
\* cable on the service issues no Cable create and raises no error, also when
\* the termination object was obtained before the cable was created.
C3_ConnectOnCabledIsNoOp ==
    ( /\ last.op \in {"cable_ifaces", "cable_power"}
      /\ (HostsCable(last.pre, LastA) \/ HostsCable(last.pre, LastB)) )
    => (last.writes = <<>> /\ last.ok)

\* C4 (as claimed): no termination hosts more than one cable, and no connect
\* call issues a Cable create naming a termination that already hosts a
\* cable on the service, nor ends in a cable-conflict error.
C4_NoConflictingCableCreate ==
    /\ \A c \in {"interfaces", "power_ports", "power_outlets"} :
         \A i \in 1..Len(nb[c]) :
            Cardinality({ k \in 1..Len(nb["cables"]) :
                \E t \in TerminationsOf(nb["cables"][k]) :
                    /\ TerminationCollection(t.object_type) = c
                    /\ t.object_id = nb[c][i].id }) <= 1
    /\ last.op \in {"cable_ifaces", "cable_power"} =>
          /\ last.ok
          /\ CallsOf(last.writes, "create", "cables") # {} =>
                ~HostsCable(last.pre, LastA) /\ ~HostsCable(last.pre, LastB)

-----------------------------------------------------------------------------
(* Specification SpecTrace: print_interface_trace_raw on a decoded body of
   any shape *)

TraceTitle == "Trace GPU-SFDP-01 eth0-100G"

\* termini: absent, a bare name, records with and without a device record,
\* a record whose device is not a record
TraceTermini ==
    { JNull, JStr("eth0"),
      JDict([device |-> JDict([name |-> JStr("GPU-1")])]),
      JDict([device |-> JDict([name |-> JStr("TOR-1")]), name |-> JStr("xe-01"),
             type |-> JStr("interface")]),
      JDict([name |-> JStr("eth0")]),
      JDict([device |-> JStr("rack-1"), name |-> JStr("eth0")]),
      JDict([device |-> JDict([display |-> JStr("GPU-1 (gpu)")]),
             display |-> JStr("eth0 (gpu)")]) }

\* cables: absent, records with a label, a display or neither, a bare name
TraceCables ==
    { JNull, JDict([label |-> JStr("L1")]), JDict([display |-> JStr("#7")]),
      JDict(<<>>), JStr("cable-7") }

\* the shapes a hop takes: a 3-element list, or a segment record under each
\* naming of the termination fields, with or without its cable field
HopShapes == {"triple", "segment", "segment-no-cable", "segment-a-b", "segment-from-to"}

MakeHop(shape, l, c, r) ==
    CASE shape = "triple" -> JList(<<l, c, r>>)
      [] shape = "segment" -> JDict([termination_a |-> l, termination_b |-> r, cable |-> c])
      [] shape = "segment-no-cable" -> JDict([termination_a |-> l, termination_b |-> r])
      [] shape = "segment-a-b" -> JDict([a |-> l, b |-> r, cable |-> c])
      [] shape = "segment-from-to" -> JDict([from |-> l, to |-> r, cable |-> c])

\* one element of each kind
TraceItems ==
    { JList(<<JStr("eth0"), JDict([label |-> JStr("L1")]), JStr("xe-01")>>),
      JList(<<JStr("eth0"), JStr("xe-01")>>),
      JDict([termination_a |-> JStr("eth0"), termination_b |-> JStr("xe-01")]),
      JNull, JStr("abc"), JNum("7"), JList(<<>>) }

\* values that are not sequences
NonSequences ==
    { JNull, JStr("not found"), JNum("7"), JBool("True"), JDict(<<>>),
      JDict([termination_a |-> JStr("eth0"), termination_b |-> JStr("xe-01")]),
      JDict([detail |-> JStr("Not found.")]) }

\* The decoded bodies: values that are not sequences, and sequences of up to
\* MaxHops elements of TraceItems, one of which may be replaced by a hop of
\* any shape over any termini and cable.
IsTraceBody(body) ==
    \/ body \in NonSequences
    \/ \E n \in 0..MaxHops : \E xs \in [1..n -> TraceItems] :
          \/ body = JList(xs)
          \/ \E i \in 1..n : \E shape \in HopShapes :
               \E l \in TraceTermini, c \in TraceCables, r \in TraceTermini :
                  body = JList([xs EXCEPT ![i] = MakeHop(shape, l, c, r)])

InitTrace ==
    /\ nb = EmptyNb
    /\ last = [op |-> "none", out |-> <<>>, raised |-> FALSE]
    /\ ncalls = 0
    /\ run = NoRun
    /\ has_choice_sets = TRUE
    /\ env = <<>>
    /\ IsTraceBody(tr)

PrintTrace ==
    /\ last.op = "none"
    /\ LET r == print_interface_trace_raw(tr, TraceTitle)
       IN last' = [op |-> "print_interface_trace_raw", out |-> r.v,
                   raised |-> r.raised]
    /\ UNCHANGED <<nb, ncalls, has_choice_sets, env, tr, run>>

NextTrace == PrintTrace

SpecTrace == InitTrace /\ [][NextTrace]_vars

\* C5 (as claimed): rendering never raises, whatever the decoded body.
C5_TraceNeverRaises ==
    last.op = "print_interface_trace_raw" => ~last.raised

\* the body matches none of the shapes (a)-(c): it is no sequence, or an
\* empty one
Unrecognized == tr.k # "list" \/ tr.items = <<>>

\* the output is the title followed by the raw dump of the body
IsRawDump ==
    /\ Len(last.out) = 3
    /\ last.out[1] = TraceTitle
    /\ last.out[2] = "   [raw trace]"

\* C6 (as claimed): a body that is not a sequence, or is an empty sequence,
\* is reported by the raw dump.
C6_UnrecognizedIsDumped ==
    (last.op = "print_interface_trace_raw" /\ Unrecognized) => IsRawDump

\* C6 (amended): a body that is not a sequence is reported by the raw dump,
\* without an exception; an empty sequence prints the title and nothing else.
C6_NonSequenceIsDumped ==
    last.op = "print_interface_trace_raw" =>
        /\ tr.k # "list" => IsRawDump /\ ~last.raised
        /\ (tr.k = "list" /\ tr.items = <<>>) =>
              last.out = << TraceTitle >> /\ ~last.raised

\* a single record, not a sequence, was dumped
C6_Witness ==
    /\ last.op = "print_interface_trace_raw"
    /\ tr = JDict([termination_a |-> JStr("eth0"), termination_b |-> JStr("xe-01")])
    /\ IsRawDump


-----------------------------------------------------------------------------
(* run setup: the module-level statements of the script, in program order.
   A statement names the variable it assigns ("_" when the result is
   dropped), the helper it calls and the arguments; arguments that are
   variables of the script are named and looked up when the statement runs. *)

\* the ToR ports, the aggregation ports and the PDU outlets provisioned
NumTorPorts == 32
NumAggPorts == 8
NumPduOutlets == 24

Digit(d) == SubSeq("0123456789", d + 1, d + 1)

\* f"{n}"
Dec(n) == IF n < 10 THEN Digit(n) ELSE Digit(n \div 10) \o Digit(n % 10)

\* f"{n:02}"
TwoDigits(n) == Digit(n \div 10) \o Digit(n % 10)

\* a string as the sequence of its characters
Chars(text) == [i \in 1..Len(text) |-> SubSeq(text, i, i)]

\* the element i (from 0) of a list variable of the script
Elem(list, i) == list \o "[" \o Dec(i) \o "]"

Stmt(var, op, x) == [var |-> var, op |-> op, x |-> x]

CustomFieldStmts ==
    << Stmt("_", "ensure_cf_text", [name |-> "cluster_name", label |-> "Cluster Name"]),
       Stmt("_", "ensure_cf_select",
            [name |-> "hpc_role", label |-> "HPC Role",
             values |-> <<"cpu", "gpu", "storage", "switch", "pdu">>]),
       Stmt("_", "ensure_cf_int", [name |-> "estimated_watts", label |-> "Estimated Watts"]) >>

TagStmts ==
    << Stmt("gpu_tag", "ensure_tag", [name |-> "gpu-node", slug |-> "gpu-node"]),
       Stmt("cpu_tag", "ensure_tag", [name |-> "cpu-node", slug |-> "cpu-node"]),
       Stmt("stor_tag", "ensure_tag", [name |-> "storage", slug |-> "storage"]),
       Stmt("tor_tag", "ensure_tag", [name |-> "tor", slug |-> "tor"]),
       Stmt("agg_tag", "ensure_tag", [name |-> "agg", slug |-> "agg"]),
       Stmt("pdu_tag", "ensure_tag", [name |-> "pdu", slug |-> "pdu"]) >>

RoleStmts ==
    << Stmt("ROLE_SERVER", "ensure_device_role", [name |-> "Server", slug |-> "server"]),
       Stmt("ROLE_NETWORK", "ensure_device_role", [name |-> "Network", slug |-> "network"]) >>

SiteRackStmts ==
    << Stmt("site", "get_or_create",
            [coll |-> "sites", attrs |-> [name |-> "SF-Dogpatch", slug |-> "sf-dogpatch"]]),
       Stmt("rack_role", "get_or_create",
            [coll |-> "rack_roles", attrs |-> [name |-> "Compute", slug |-> "compute"]]),
       Stmt("rack", "get_or_create_rack", [name |-> "SFDP-Rack-01", u_height |-> 48]) >>

DeviceTypeStmts ==
    << Stmt("mfg", "ensure_manufacturer", [name |-> "Generic"]),
       Stmt("dt_gpu", "ensure_device_type", [model |-> "GPU Node 2x100G", u |-> 2]),
       Stmt("dt_cpu", "ensure_device_type", [model |-> "CPU Node 2x25G", u |-> 1]),
       Stmt("dt_stor", "ensure_device_type", [model |-> "Storage Head 4x25G", u |-> 2]),
       Stmt("dt_tor", "ensure_device_type", [model |-> "ToR Switch 32x100G", u |-> 1]),
       Stmt("dt_agg", "ensure_device_type", [model |-> "Aggregation Switch 8x100G", u |-> 2]),
       Stmt("dt_pdu", "ensure_device_type", [model |-> "PDU 24-outlet", u |-> 2]) >>

\* {"cluster_name": "atlas", "hpc_role": role, "estimated_watts": watts}
DeviceCf(role, watts) ==
    [cluster_name |-> "atlas", hpc_role |-> role, estimated_watts |-> watts]

DeviceStmt(var, name, dt, ru, tags, cf) ==
    Stmt(var, "ensure_device", [name |-> name, dt |-> dt, ru |-> ru, tags |-> tags, cf |-> cf])

DeviceStmts ==
    << DeviceStmt("tor", "TOR-SFDP-01", "dt_tor", 42, <<"tor_tag", "agg_tag">>, DeviceCf("switch", 180)),
       DeviceStmt("agg", "AGG-SFDP-01", "dt_agg", 46, <<"agg_tag">>, DeviceCf("switch", 220)),
       DeviceStmt("pdu", "PDU-SFDP-01", "dt_pdu", 2, <<"pdu_tag">>, DeviceCf("pdu", 20)),
       DeviceStmt("gpu1", "GPU-SFDP-01", "dt_gpu", 20, <<"gpu_tag">>, DeviceCf("gpu", 800)),
       DeviceStmt("gpu2", "GPU-SFDP-02", "dt_gpu", 18, <<"gpu_tag">>, DeviceCf("gpu", 800)),
       DeviceStmt("cpu1", "CPU-SFDP-01", "dt_cpu", 16, <<"cpu_tag">>, DeviceCf("cpu", 250)),
       DeviceStmt("stor", "STOR-SFDP-01", "dt_stor", 14, <<"stor_tag">>, DeviceCf("storage", 350)) >>

IfaceStmt(var, device, name, hint) ==
    Stmt(var, "ensure_iface", [device |-> device, name |-> Chars(name), hint |-> Chars(hint)])

PowerPortStmt(var, device, maximum_draw, allocated_draw) ==
    Stmt(var, "ensure_power_port",
         [device |-> device, name |-> "PSU1", maximum_draw |-> maximum_draw,
          allocated_draw |-> allocated_draw])

ComponentStmts ==
    [i \in 1..NumTorPorts |->
        IfaceStmt(Elem("tor_ports", i - 1), "tor", "xe-" \o TwoDigits(i), "100g")]
    \o << IfaceStmt("agg_upl1", "tor", "uplink-1", "100g"),
          IfaceStmt("agg_upl2", "tor", "uplink-2", "100g") >>
    \o [i \in 1..NumAggPorts |->
        IfaceStmt(Elem("agg_ports", i - 1), "agg", "xe-" \o TwoDigits(i), "100g")]
    \o << IfaceStmt("gpu1_p1", "gpu1", "eth0-100G", "100g"),
          IfaceStmt("gpu1_p2", "gpu1", "eth1-100G", "100g"),
          IfaceStmt("gpu2_p1", "gpu2", "eth0-100G", "100g"),
          IfaceStmt("gpu2_p2", "gpu2", "eth1-100G", "100g"),
          IfaceStmt("cpu1_p1", "cpu1", "eth0-25G", "25g"),
          IfaceStmt("stor_p1", "stor", "eth0-25G", "25g"),
          PowerPortStmt("gpu1_pp", "gpu1", 1000, 800),
          PowerPortStmt("gpu2_pp", "gpu2", 1000, 800),
          PowerPortStmt("cpu1_pp", "cpu1", 400, 250),
          PowerPortStmt("stor_pp", "stor", 600, 350) >>
    \o [n \in 1..NumPduOutlets |->
        Stmt(Elem("pdu_outlets", n - 1), "ensure_power_outlet",
             [device |-> "pdu", name |-> "OUT" \o Dec(n)])]

CableStmt(op, a, b) == Stmt("_", op, [a |-> a, b |-> b])

CablingStmts ==
    << CableStmt("cable_ifaces", "gpu1_p1", Elem("tor_ports", 0)),
       CableStmt("cable_ifaces", "gpu1_p2", Elem("tor_ports", 1)),
       CableStmt("cable_ifaces", "gpu2_p1", Elem("tor_ports", 2)),
       CableStmt("cable_ifaces", "gpu2_p2", Elem("tor_ports", 3)),
       CableStmt("cable_ifaces", "cpu1_p1", Elem("tor_ports", 4)),
       CableStmt("cable_ifaces", "stor_p1", Elem("tor_ports", 5)),
       CableStmt("cable_ifaces", "agg_upl1", Elem("agg_ports", 0)),
       CableStmt("cable_ifaces", "agg_upl2", Elem("agg_ports", 1)),
       CableStmt("cable_power", "gpu1_pp", Elem("pdu_outlets", 1)),
       CableStmt("cable_power", "gpu2_pp", Elem("pdu_outlets", 2)),
       CableStmt("cable_power", "cpu1_pp", Elem("pdu_outlets", 3)),
       CableStmt("cable_power", "stor_pp", Elem("pdu_outlets", 4)) >>

MetricStmts ==
    << Stmt("rack_watts", "rack_power", [rack |-> "rack"]),
       Stmt("util", "tor_utilization", [tor |-> "tor"]) >>

\* the build of the rack: everything up to the cabling
SetupStmts ==
    CustomFieldStmts \o TagStmts \o RoleStmts \o SiteRackStmts \o DeviceTypeStmts
    \o DeviceStmts \o ComponentStmts \o CablingStmts

\* the script, up to the trace
Batch == SetupStmts \o MetricStmts

\* the variables of the script
BatchVars == { Batch[i].var : i \in 1..Len(Batch) }

\* no variable is bound before its statement has run
UnboundEnv == [v \in BatchVars |-> None]

\* requests.get(<interface>/trace/), raise_for_status(), r.json(): the body
\* is the service's
EndpointTrace(ctx, iface_id, body) ==
    IF ~ctx.ok THEN [ctx |-> ctx, ret |-> JNull]
    ELSE IF ctx.n + 1 = ctx.failAt
    THEN [ctx |-> [ctx EXCEPT !.n = @ + 1, !.ok = FALSE], ret |-> JNull]
    ELSE [ctx |-> [ctx EXCEPT !.n = @ + 1], ret |-> body]

\* one statement of the script, run with the variables e; an exception
\* leaves ctx.ok false
ExecStmt(ctx, e, st) ==
    LET x == st.x
    IN CASE st.op = "ensure_cf_text" -> ensure_cf_text(ctx, x.name, x.label)
         [] st.op = "ensure_cf_select" ->
                ensure_cf_select(ctx, x.name, x.label, x.values, Absent)
         [] st.op = "ensure_cf_int" -> ensure_cf_int(ctx, x.name, x.label)
         [] st.op = "ensure_tag" -> ensure_tag(ctx, x.name, x.slug)
         [] st.op = "ensure_device_role" -> ensure_device_role(ctx, x.name, x.slug)
         [] st.op = "get_or_create" -> get_or_create(ctx, x.coll, x.attrs)
         [] st.op = "get_or_create_rack" ->
                get_or_create(ctx, "racks",
                    [name |-> x.name, site |-> e["site"].id,
                     role |-> e["rack_role"].id, u_height |-> x.u_height])
         [] st.op = "ensure_manufacturer" -> ensure_manufacturer(ctx, x.name)
         [] st.op = "ensure_device_type" ->
                ensure_device_type(ctx, e["mfg"], x.model, x.u, TRUE)
         [] st.op = "ensure_device" ->
                ensure_device(ctx,
                    [ROLE_SERVER |-> e["ROLE_SERVER"], ROLE_NETWORK |-> e["ROLE_NETWORK"],
                     site |-> e["site"], rack |-> e["rack"]],
                    x.name, e[x.dt], x.ru, [i \in 1..Len(x.tags) |-> e[x.tags[i]]], x.cf)
         [] st.op = "ensure_iface" -> ensure_iface(ctx, e[x.device], x.name, x.hint, FALSE)
         [] st.op = "ensure_power_port" ->
                ensure_power_port(ctx, e[x.device], x.name, x.maximum_draw, x.allocated_draw)
         [] st.op = "ensure_power_outlet" -> ensure_power_outlet(ctx, e[x.device], x.name)
         [] st.op = "cable_ifaces" -> cable_ifaces(ctx, e[x.a], e[x.b])
         [] st.op = "cable_power" -> cable_power(ctx, e[x.a], e[x.b])
         [] st.op = "rack_power" -> rack_power(ctx, e[x.rack])
         [] st.op = "tor_utilization" -> tor_utilization(ctx, e[x.tor])

\* statement i run without interruption on the remote state and the
\* variables of at
RunOne(at, i) ==
    CHOOSE after \in
        { [nb |-> r.ctx.nb, env |-> [at.env EXCEPT ![Batch[i].var] = r.ret]] :
            r \in { ExecStmt(NewCtx(at.nb, 0, FALSE), at.env, Batch[i]) } } : TRUE

\* the statements lo..hi run without interruption, one after the other
RECURSIVE RunRange(_, _, _)
RunRange(at, lo, hi) ==
    IF lo > hi THEN at
    ELSE IF lo = hi THEN RunOne(at, lo)
    ELSE CHOOSE after \in
             { RunRange(mid, (lo + hi) \div 2 + 1, hi) :
                 mid \in { RunRange(at, lo, (lo + hi) \div 2) } } : TRUE

-----------------------------------------------------------------------------
(* Specification SpecBatch: the script run statement by statement against
   the service.  Any remote call of a statement may fail, the failing write
   applied or not before the error surfaces; the exception ends the run,
   and the operator runs the whole script again. *)

\* a service on which somebody bound the select field to a legacy choice set
\* and started a choice set under the field's name
DriftedNb ==
    LET a == ensure_choice_set_pynetbox(NewCtx(EmptyNb, 0, FALSE), "legacy_roles", <<"gpu">>)
        b == ensure_choice_set_pynetbox(NewCtx(a.ctx.nb, 0, FALSE), "hpc_role", <<"cpu", "login">>)
        c == EndpointCreate(NewCtx(b.ctx.nb, 0, FALSE), "custom_fields",
                [name |-> "hpc_role", type |-> "select", label |-> "Role",
                 required |-> FALSE, object_types |-> CF_DEVICE_OBJECT_TYPES,
                 choice_set |-> a.ret.id, selection_mode |-> "single"])
    IN c.ctx.nb

InitialRemote(start) == IF start = "empty" THEN EmptyNb ELSE DriftedNb

\* what the service answers to the trace of a cabled interface
BatchTraceBodies ==
    { JList(<< JList(<< JList(<< JDict([name |-> JStr("eth0-100G"),
                                        device |-> JDict([name |-> JStr("GPU-SFDP-01")])]) >>),
                        JDict([label |-> JStr("")]),
                        JList(<< JDict([name |-> JStr("xe-01"),
                                        device |-> JDict([name |-> JStr("TOR-SFDP-01")])]) >>) >>) >>),
      JList(<<>>) }

\* the positions of the trace statement and of the end of the script
AtTrace == Len(Batch) + 1
Done == Len(Batch) + 2

InitBatch ==
    /\ \E start \in {"empty", "drifted"} :
          /\ nb = InitialRemote(start)
          /\ run = [pc |-> 1, halted |-> FALSE, writes |-> 0, everHalted |-> FALSE,
                    afterComplete |-> FALSE, start |-> start]
    /\ last = [op |-> "none"]
    /\ ncalls = 0
    /\ has_choice_sets \in BOOLEAN
    /\ env = UnboundEnv
    /\ tr = JNull

\* a statement whose exception is swallowed: the script goes on
Advance_swallows_errors(st, ctx) ==
    LET r == ExecStmt(ctx, env, st)
    IN /\ nb' = r.ctx.nb
       /\ env' = IF r.ctx.ok THEN [env EXCEPT ![st.var] = r.ret] ELSE env
       /\ run' = [run EXCEPT !.pc = @ + 1,
                             !.halted = FALSE,
                             !.writes = @ + Len(r.ctx.writes)]

\* the effect of a statement run under ctx
Advance(st, ctx) ==
    LET r == ExecStmt(ctx, env, st)
    IN /\ nb' = r.ctx.nb
       /\ env' = IF r.ctx.ok THEN [env EXCEPT ![st.var] = r.ret] ELSE env
       /\ run' = [run EXCEPT !.pc = IF r.ctx.ok THEN @ + 1 ELSE @,
                             !.halted = ~r.ctx.ok,
                             !.writes = @ + Len(r.ctx.writes)]

\* the next statement runs, every remote call of it answered
Step ==
    /\ run.pc \in 1..Len(Batch)
    /\ ~run.halted
    /\ Advance(Batch[run.pc], NewCtx(nb, 0, FALSE))
    /\ UNCHANGED <<last, ncalls, has_choice_sets, tr>>

\* the next statement runs and one of its remote calls fails
StepFails ==
    /\ run.pc \in 1..Len(Batch)
    /\ ~run.halted
    /\ \E failAt \in 1..ExecStmt(NewCtx(nb, 0, FALSE), env, Batch[run.pc]).ctx.n,
          applied \in BOOLEAN :
          Advance(Batch[run.pc], NewCtx(nb, failAt, applied))
    /\ UNCHANGED <<last, ncalls, has_choice_sets, tr>>

\* the last statement: the trace of the first NIC of gpu1 is requested and,
\* when the request is answered, the body of the answer is printed
Trace ==
    /\ run.pc = AtTrace
    /\ ~run.halted
    /\ \E body \in BatchTraceBodies, failAt \in {0, 1} :
          \E halts \in { \/ ~EndpointTrace(NewCtx(nb, failAt, FALSE), env["gpu1_p1"].id, body).ctx.ok
                         \/ print_interface_trace_raw(body, TraceTitle).raised } :
             /\ tr' = IF failAt = 0 THEN body ELSE tr
             /\ run' = [run EXCEPT !.pc = IF halts THEN @ ELSE @ + 1, !.halted = halts]
    /\ UNCHANGED <<nb, last, ncalls, has_choice_sets, env>>

\* python hpc_demo_setup.py, again
Rerun ==
    /\ run.halted \/ run.pc = Done
    /\ run' = [run EXCEPT !.pc = 1, !.halted = FALSE, !.writes = 0,
                          !.everHalted = @ \/ run.halted,
                          !.afterComplete = @ \/ run.pc = Done]
    /\ env' = UnboundEnv
    /\ tr' = JNull
    /\ UNCHANGED <<nb, last, ncalls, has_choice_sets>>

NextBatch == Step \/ StepFails \/ Trace \/ Rerun

SpecBatch == InitBatch /\ [][NextBatch]_vars

\* no two records of a collection answer to the same lookup key
KeyOf(coll, r) ==
    CASE coll \in {"tags", "device_roles", "device_types"} -> <<r.slug>>
      [] coll \in {"interfaces", "power_ports", "power_outlets"} -> <<r.device, r.name>>
      [] coll = "cables" -> <<r.a_terminations, r.b_terminations>>
      [] OTHER -> <<r.name>>

NoDuplicateKeys(remote) ==
    \A coll \in Collections :
        Cardinality({ KeyOf(coll, remote[coll][i]) : i \in 1..Len(remote[coll]) })
            = Len(remote[coll])

\* the remote state a single uninterrupted run reaches from the initial one
SingleRun ==
    RunRange([nb |-> InitialRemote(run.start), env |-> UnboundEnv],
             1, Len(Batch)).nb

\* C7: once a run of the batch completes, however many runs halted before
\* it, the service holds exactly what one uninterrupted run from the same
\* initial state leaves; no collection ever holds two records under one key
\* (nothing was created twice); and a run that follows a completed run issues
\* no create and no update call.
C7_RerunConverges ==
    /\ run.pc = Done => nb = SingleRun
    /\ NoDuplicateKeys(nb)
    /\ run.afterComplete => run.writes = 0

\* a run halted, the script was run again and completed; and a run over a
\* completed run has completed, too
C7_Witness == run.pc = Done /\ run.everHalted /\ run.afterComplete /\ nb # InitialRemote(run.start)

\* the interfaces the service holds for the ToR switch
TorIfaces == SelectSeq(nb["interfaces"], LAMBDA i : i.device = env["tor"].id)

IsUplink(i) == i.name \in {Chars("uplink-1"), Chars("uplink-2")}

\* C10, as stated: after a complete run from an empty service the report
\* counts the 32 provisioned ports only, 6 of them cabled: 18.8%.
C10_SixOfThirtyTwo ==
    (run.pc = Done /\ run.start = "empty") =>
        /\ env["util"].total_ports = NumTorPorts
        /\ env["util"].used_ports = 6
        /\ env["util"].util = 188

\* C10, amended: after a complete run the report counts every interface of
\* the ToR switch, the two cabled uplinks with the 32 ports: 8 of 34 carry a
\* cable and the reported utilization is 23.5%.
C10_UplinksCounted ==
    run.pc = Done =>
        /\ env["util"].total_ports = Len(TorIfaces)
        /\ env["util"].total_ports = NumTorPorts + 2
        /\ env["util"].used_ports = Len(SelectSeq(TorIfaces, LAMBDA i : i.cable # 0))
        /\ env["util"].used_ports = 8
        /\ Len(SelectSeq(TorIfaces, LAMBDA i : IsUplink(i) /\ i.cable # 0)) = 2
        /\ env["util"].util = 235

\* a first, uninterrupted run from an empty service has reported
C10_Witness ==
    /\ run.pc = Done /\ run.start = "empty" /\ ~run.everHalted /\ ~run.afterComplete
    /\ env["util"].util = 235

-----------------------------------------------------------------------------
(* Specification SpecPower: the rack power roll-up taken on a service that
   holds devices in two racks, with and without the estimated_watts
   attribute, or the seven devices of the script in one rack. *)

\* how many devices the service holds
MaxDevices == 3

\* the custom fields of a device: the attribute set, or not carried
PowerCustomFields == { DeviceCf("gpu", 800), DeviceCf("switch", 180),
                       [cluster_name |-> "atlas"] }

\* the devices the script places in its rack
ScriptDevices ==
    [i \in 1..Len(DeviceStmts) |->
        [id |-> i, name |-> DeviceStmts[i].x.name, rack |-> 1,
         custom_fields |-> DeviceStmts[i].x.cf]]

InitPower ==
    /\ \E n \in 0..MaxDevices :
          \E racks \in [1..n -> {1, 2}], cfs \in [1..n -> PowerCustomFields] :
             \/ nb = [EmptyNb EXCEPT !["devices"] =
                        [i \in 1..n |-> [id |-> i, name |-> "dev-" \o Dec(i),
                                         rack |-> racks[i], custom_fields |-> cfs[i]]]]
             \/ nb = [EmptyNb EXCEPT !["devices"] = ScriptDevices]
    /\ last = [op |-> "none"]
    /\ ncalls = 0
    /\ run = NoRun
    /\ has_choice_sets = TRUE
    /\ env = <<>>
    /\ tr = JNull

\* the roll-up of rack 1 or rack 2 is taken
RackPower ==
    /\ ncalls < MaxCalls
    /\ \E rack \in {1, 2} :
          LET r == rack_power(NewCtx(nb, 0, FALSE), [id |-> rack])
          IN last' = [op |-> "rack_power", rack |-> rack, ret |-> r.ret.rack_watts,
                      writes |-> r.ctx.writes]
    /\ ncalls' = ncalls + 1
    /\ UNCHANGED <<nb, has_choice_sets, env, tr, run>>

NextPower == RackPower

SpecPower == InitPower /\ [][NextPower]_vars

\* the wattage a device contributes
WattsOf(d) ==
    IF "estimated_watts" \in DOMAIN d.custom_fields THEN d.custom_fields.estimated_watts ELSE 0

\* the sum of the wattages of the devices at the positions S
RECURSIVE WattsOver(_)
WattsOver(S) ==
    IF S = {} THEN 0
    ELSE LET i == CHOOSE i \in S : TRUE
         IN WattsOf(nb["devices"][i]) + WattsOver(S \ {i})

InRack(rack) == { i \in 1..Len(nb["devices"]) : nb["devices"][i].rack = rack }

\* C11: the roll-up of a rack is the sum of estimated_watts over the devices
\* placed in that rack, a device without the attribute counting 0 and a
\* device of another rack not counting; the seven devices of the script in
\* one rack roll up to 2620.  Nothing is written.
C11_RackRollUp ==
    last.op = "rack_power" =>
        /\ last.ret = WattsOver(InRack(last.rack))
        /\ last.writes = <<>>
        /\ (nb["devices"] = ScriptDevices /\ last.rack = 1) => last.ret = 2620

\* a roll-up over a rack holding a device with and a device without the
\* attribute, another rack holding a device with it
C11_Witness ==
    /\ last.op = "rack_power"
    /\ \E i, j \in InRack(last.rack) :
          WattsOf(nb["devices"][i]) > 0 /\ "estimated_watts" \notin DOMAIN nb["devices"][j].custom_fields
    /\ \E k \in 1..Len(nb["devices"]) :
          nb["devices"][k].rack # last.rack /\ WattsOf(nb["devices"][k]) > 0

-----------------------------------------------------------------------------
(* Specification SpecShapes: one hop (left, cable, right) answered by the
   service once as a 3-element list and once as a segment record, each
   printed by print_interface_trace_raw. *)

InitShapes ==
    /\ nb = EmptyNb
    /\ env \in [left : TraceTermini, cable : TraceCables, right : TraceTermini]
    /\ last = [op |-> "render", rendered |-> {},
               triple |-> Returned(<<>>), segment |-> Returned(<<>>)]
    /\ ncalls = 0
    /\ run = NoRun
    /\ has_choice_sets = TRUE
    /\ tr = JNull

\* the hop is answered in one of the two shapes and printed
RenderHop ==
    /\ \E shape \in {"triple", "segment"} \ last.rendered :
          \E body \in { JList(<< MakeHop(shape, env.left, env.cable, env.right) >>) } :
             /\ tr' = body
             /\ last' = [last EXCEPT ![shape] = print_interface_trace_raw(body, TraceTitle),
                                     !.rendered = @ \cup {shape}]
    /\ UNCHANGED <<nb, ncalls, has_choice_sets, env, run>>

NextShapes == RenderHop

SpecShapes == InitShapes /\ [][NextShapes]_vars

\* C12: a hop answered as [left, cable, right] and as {termination_a: left,
\* termination_b: right, cable: cable} prints the same lines under both
\* shapes, neither raising.
C12_ShapesRenderAlike ==
    last.rendered = {"triple", "segment"} =>
        /\ ~last.triple.raised /\ ~last.segment.raised
        /\ last.triple.v = last.segment.v

\* the first of the named fields of a record that holds a non-empty string
FirstText(record, names) ==
    LET held == SelectSeq(names, LAMBDA n : n \in DOMAIN record.fields
                                            /\ record.fields[n].k = "str"
                                            /\ record.fields[n].s # "")
    IN IF held = <<>> THEN "" ELSE record.fields[held[1]].s

\* the device name of a terminus record, "" when none is resolvable
DeviceNameOf(term) ==
    IF "device" \in DOMAIN term.fields /\ term.fields["device"].k = "dict"
    THEN FirstText(term.fields["device"], <<"name", "display">>)
    ELSE ""

\* a terminus as C13 renders it: the absence marker, or kind:name with the
\* device name appended when there is one
RenderedTerminus(term) ==
    IF term.k = "null" THEN "-"
    ELSE LET kind == FirstText(term, <<"obj_type", "type", "object_type">>)
             name == FirstText(term, <<"name", "display">>)
             head == (IF kind = "" THEN "term" ELSE kind) \o ":" \o name
         IN IF DeviceNameOf(term) # "" THEN head \o "@" \o DeviceNameOf(term) ELSE head

\* C13: a hop [left, null, right] whose termini are records or absent prints
\* one line, with the label "cable" and each terminus as kind:name@device
\* when its device name is resolvable, as kind:name when it is not, and as
\* "-" when the terminus is absent.
C13_TerminusRendering ==
    ( /\ "triple" \in last.rendered
      /\ env.cable = JNull
      /\ env.left.k \in {"null", "dict"} /\ env.right.k \in {"null", "dict"} ) =>
        /\ ~last.triple.raised
        /\ last.triple.v = << TraceTitle,
                              "   " \o RenderedTerminus(env.left) \o "  --[cable]-->  "
                                    \o RenderedTerminus(env.right) >>

-----------------------------------------------------------------------------
(* Specification SpecFrame: get_or_create, ensure_cf_text and ensure_cf_int
   invoked with any arguments on a service that holds sites or custom
   fields of any type. *)

FieldNames == {"cluster_name", "estimated_watts"}

\* initial custom fields: identities 1..n, names unique, any declared type
InitFields ==
    { s \in UNION { [1..n -> [id : 1..MaxInit, name : FieldNames,
                              type : {"text", "integer", "select"},
                              label : {"Old label"}, required : {FALSE},
                              object_types : {CF_DEVICE_OBJECT_TYPES},
                              choice_set : {0}]]
                    : n \in 0..MaxInit } :
        /\ \A i \in DOMAIN s : s[i].id = i
        /\ \A i, j \in DOMAIN s : i # j => s[i].name # s[j].name }

InitFrame ==
    /\ \/ nb \in { [EmptyNb EXCEPT !["sites"] = s] : s \in InitResources }
       \/ nb \in { [EmptyNb EXCEPT !["custom_fields"] = s] : s \in InitFields }
    /\ last = [op |-> "none"]
    /\ ncalls = 0
    /\ run = NoRun
    /\ has_choice_sets = TRUE
    /\ env = <<>>
    /\ tr = JNull

\* what a helper invocation leaves behind: its lookup, the service before it,
\* its result and its write calls
Invoked(op, coll, key, attrs, r) ==
    [op |-> op, coll |-> coll, key |-> key, attrs |-> attrs, pre |-> nb,
     ret |-> r.ret, writes |-> r.ctx.writes]

EnsureSite ==
    /\ ncalls < MaxCalls
    /\ \E attrs \in EnsureAttrs :
          LET r == get_or_create(NewCtx(nb, 0, FALSE), "sites", attrs)
              key == IF Truthy(attrs.name) THEN [name |-> attrs.name]
                     ELSE [slug |-> attrs.slug]
          IN /\ nb' = r.ctx.nb
             /\ last' = Invoked("get_or_create", "sites", key, attrs, r)
    /\ ncalls' = ncalls + 1
    /\ UNCHANGED <<has_choice_sets, env, tr, run>>

EnsureCfText ==
    /\ ncalls < MaxCalls
    /\ \E name \in FieldNames, label \in {"Old label", "New label"} :
          LET r == ensure_cf_text(NewCtx(nb, 0, FALSE), name, label)
          IN /\ nb' = r.ctx.nb
             /\ last' = Invoked("ensure_cf_text", "custom_fields", [name |-> name],
                                [type |-> "text", label |-> label], r)
    /\ ncalls' = ncalls + 1
    /\ UNCHANGED <<has_choice_sets, env, tr, run>>

EnsureCfInt ==
    /\ ncalls < MaxCalls
    /\ \E name \in FieldNames, label \in {"Old label", "New label"} :
          LET r == ensure_cf_int(NewCtx(nb, 0, FALSE), name, label)
          IN /\ nb' = r.ctx.nb
             /\ last' = Invoked("ensure_cf_int", "custom_fields", [name |-> name],
                                [type |-> "integer", label |-> label], r)
    /\ ncalls' = ncalls + 1
    /\ UNCHANGED <<has_choice_sets, env, tr, run>>

NextFrame == EnsureSite \/ EnsureCfText \/ EnsureCfInt

SpecFrame == InitFrame /\ [][NextFrame]_vars

\* the positions of the records that answered to the lookup of the last
\* invocation, before it ran
HeldBefore ==
    { i \in 1..Len(last.pre[last.coll]) :
        \A f \in DOMAIN last.key : last.pre[last.coll][i][f] = last.key[f] }

\* the passed attributes differ from what the held record stores
AttrsDiffer ==
    \E f \in DOMAIN last.attrs : last.ret[f] # last.attrs[f]

\* C14: when a resource with the lookup key exists, get_or_create,
\* ensure_cf_text and ensure_cf_int return it as it is, issue no create and
\* no update call and leave the service unchanged, whatever attributes or
\* field type were passed.
C14_NoReconciliation ==
    (last.op # "none" /\ HeldBefore # {}) =>
        /\ last.ret = last.pre[last.coll][Min(HeldBefore)]
        /\ last.writes = <<>>
        /\ nb = last.pre

\* a field held under another type was asked for as text, and a site held
\* under other attributes was asked for: each came back untouched
C14_Witness ==
    /\ last.op \in {"get_or_create", "ensure_cf_text"}
    /\ HeldBefore # {}
    /\ AttrsDiffer
    /\ last.op = "ensure_cf_text" => last.ret.type # "text"

-----------------------------------------------------------------------------
(* Specification SpecRace: two runs of the same reconciliation against one
   service.  A run is sequential, and each of its remote calls is one step:
   the lookup, then the create when the lookup answered nothing.  The steps
   of the two runs interleave freely. *)

Runs == {1, 2}

\* the filter get_or_create looks up with
lookup_key(attrs) ==
    IF Truthy(attrs.name) THEN [name |-> attrs.name]
    ELSE IF Truthy(attrs.slug) THEN [slug |-> attrs.slug]
    ELSE <<>>

\* the existence check repeated on the service at the moment of the create
create_if_still_absent(ctx, coll, obj, attrs) ==
    LET g == EndpointGet(ctx, coll, [name |-> attrs.name])
    IN IF g.ret # None THEN [ctx |-> ctx, ret |-> g.ret]
       ELSE EndpointCreate(ctx, coll, attrs)

\* if obj: return obj / return endpoint.create(attrs), on the answer obj of
\* the lookup made before
create_if_absent(ctx, coll, obj, attrs) ==
    IF obj # None THEN [ctx |-> ctx, ret |-> obj]
    ELSE EndpointCreate(ctx, coll, attrs)

\* what the two runs hold when both reconcile a device
RaceGlobals ==
    [ROLE_SERVER |-> [id |-> 1], ROLE_NETWORK |-> [id |-> 2],
     site |-> [id |-> 1], rack |-> [id |-> 1]]

RaceDeviceType == [id |-> 1, model |-> "GPU Node 2x100G"]

\* the payload ensure_device creates with
device_payload(globals, name, dt, ru, tags, cf) ==
    [name |-> name, device_type |-> dt.id,
     role |-> device_role_id(dt, globals.ROLE_SERVER, globals.ROLE_NETWORK),
     site |-> globals.site.id, rack |-> globals.rack.id,
     position |-> ru, face |-> "front",
     tags |-> [i \in 1..Len(tags) |-> tags[i].id],
     custom_fields |-> cf]

\* the reconciliations the two runs may both be making
RaceCalls ==
    { [op |-> "get_or_create", coll |-> "sites", key |-> lookup_key(a), attrs |-> a] :
        a \in EnsureAttrs }
    \cup
    { [op |-> "ensure_device", coll |-> "devices", key |-> [name |-> "GPU-SFDP-01"],
       attrs |-> device_payload(RaceGlobals, "GPU-SFDP-01", RaceDeviceType, 20, <<>>,
                                DeviceCf("gpu", 800))] }

InitRace ==
    /\ nb \in { [EmptyNb EXCEPT !["sites"] = s] : s \in InitResources }
    /\ last \in RaceCalls
    /\ env = [p \in Runs |-> [pc |-> "lookup", obj |-> None, ret |-> None,
                              writes |-> <<>>]]
    /\ ncalls = 0
    /\ run = NoRun
    /\ has_choice_sets = TRUE
    /\ tr = JNull

\* run p looks its key up
RaceLookup(p) ==
    /\ env[p].pc = "lookup"
    /\ LET g == EndpointGet(NewCtx(nb, 0, FALSE), last.coll, last.key)
       IN env' = [env EXCEPT ![p].pc = "create", ![p].obj = g.ret]
    /\ UNCHANGED <<nb, last, ncalls, has_choice_sets, tr, run>>

\* run p returns what it found, or creates
RaceCreate(p) ==
    /\ env[p].pc = "create"
    /\ LET r == create_if_absent(NewCtx(nb, 0, FALSE), last.coll, env[p].obj, last.attrs)
       IN /\ nb' = r.ctx.nb
          /\ env' = [env EXCEPT ![p].pc = "done", ![p].ret = r.ret,
                                ![p].writes = r.ctx.writes]
    /\ UNCHANGED <<last, ncalls, has_choice_sets, tr, run>>

NextRace == \E p \in Runs : RaceLookup(p) \/ RaceCreate(p)

SpecRace == InitRace /\ [][NextRace]_vars

\* the records the service holds under the key of the two runs
HeldUnderKey ==
    { i \in 1..Len(nb[last.coll]) :
        \A f \in DOMAIN last.key : nb[last.coll][i][f] = last.key[f] }

BothSawAbsent == \A p \in Runs : env[p].pc = "done" /\ env[p].obj = None

\* C15: nothing stands between the existence check and the create.  When
\* both runs have looked the key up before either created, each issues its
\* create, and the service ends up holding two resources under the one key,
\* one returned to each run.
C15_RaceDuplicates ==
    BothSawAbsent =>
        /\ \A p \in Runs : Len(env[p].writes) = 1 /\ env[p].writes[1].op = "create"
        /\ env[1].ret.id # env[2].ret.id
        /\ Cardinality(HeldUnderKey) >= 2

\* both runs saw the key absent and the service holds it twice
C15_Witness ==
    /\ BothSawAbsent
    /\ Cardinality(HeldUnderKey) = 2
    /\ last.op = "ensure_device"

-----------------------------------------------------------------------------
(* Specification SpecPaths: the structured-client path and the raw-HTTP
   fallback path of ensure_choice_set run on the same service state with
   the same arguments. *)

InitPaths ==
    /\ nb \in { [EmptyNb EXCEPT !["custom_field_choice_sets"] = s] : s \in InitChoiceSets }
    /\ last \in { [op |-> "none", name |-> "hpc_role", values |-> v, pre |-> EmptyNb,
                   pynetbox |-> None, raw |-> None] :
                    v \in SeqsUpTo(ChoiceValues, MaxValues) }
    /\ ncalls = 0
    /\ run = NoRun
    /\ has_choice_sets = TRUE
    /\ env = <<>>
    /\ tr = JNull

\* what a path did: its write calls, the service it leaves, its result
PathOutcome(r) == [id |-> r.ret.id, writes |-> r.ctx.writes, nb |-> r.ctx.nb]

\* both paths are run on the service as it is; the service moves on as the
\* structured-client path leaves it
BothPaths ==
    /\ ncalls < MaxCalls
    /\ last' = [last EXCEPT
                 !.op = "ensure_choice_set", !.pre = nb,
                 !.pynetbox = PathOutcome(ensure_choice_set_pynetbox(
                                  NewCtx(nb, 0, FALSE), last.name, last.values)),
                 !.raw = PathOutcome(ensure_choice_set_raw(
                                  NewCtx(nb, 0, FALSE), last.name, last.values))]
    /\ nb' = last'.pynetbox.nb
    /\ ncalls' = ncalls + 1
    /\ UNCHANGED <<has_choice_sets, env, tr, run>>

NextPaths == BothPaths

SpecPaths == InitPaths /\ [][NextPaths]_vars

NothingPastFailure ==
    \A j \in 1..Len(Batch) :
        (j < run.pc /\ Batch[j].var # "_") => env[Batch[j].var] # None

\* after the failure the run does nothing more: the next thing to happen is
\* a new run, which has issued no call yet
HaltIsFinal ==
    run.halted => /\ nb' = nb
                  /\ run'.pc = 1 /\ ~run'.halted /\ run'.writes = 0

\* the states the calls of a statement lead through: none answered, the
\* choice set of a select field written, all answered
ThroughStmt(remote, e, st) ==
    { remote, ExecStmt(NewCtx(remote, 0, FALSE), e, st).ctx.nb }
    \cup (IF st.op = "ensure_cf_select"
          THEN { ensure_choice_set(NewCtx(remote, 0, FALSE), st.x.name, st.x.values).ctx.nb }
          ELSE {})

\* the failing statement leaves the service where its answered calls took
\* it, and the run stays at that statement
HaltsInPlace ==
    (~run.halted /\ run'.halted /\ run.pc \in 1..Len(Batch)) =>
        /\ run'.pc = run.pc
        /\ env' = env
        /\ nb' \in ThroughStmt(nb, env, Batch[run.pc])

\* nothing the service held is taken back
NoRollback ==
    \A coll \in Collections :
        /\ Len(nb'[coll]) >= Len(nb[coll])
        /\ \A i \in 1..Len(nb[coll]) : nb'[coll][i].id = nb[coll][i].id

\* C17: a remote error in a lookup, a create or an update ends the run at
\* the statement it occurs in: no later statement runs and no further call
\* is issued in that run, the service holds what the answered calls made of
\* it, and nothing created before is taken back.
C17_HaltsAtFailure ==
    /\ [](NothingPastFailure)
    /\ [][HaltIsFinal]_vars
    /\ [][HaltsInPlace]_vars
    /\ [][NoRollback]_vars

\* a run failed while cabling, with everything it built before in place
C17_Witness ==
    /\ run.halted
    /\ Batch[run.pc].op = "cable_power"
    /\ ~run.everHalted /\ ~run.afterComplete
    /\ Len(nb["cables"]) >= 8 /\ Len(nb["devices"]) = Len(DeviceStmts)

\* the record of a collection with a given value of a field, or None
HeldWith(coll, field, value) ==
    LET hits == {i \in 1..Len(nb[coll]) : nb[coll][i][field] = value}
    IN IF hits = {} THEN None ELSE nb[coll][Min(hits)]

\* the model label of the device type of a device
ModelLabelOf(d) == HeldWith("device_types", "id", d.device_type).model

IsInfrastructureLabel(label) == Contains(label, "Switch") \/ Contains(label, "PDU")

\* every device has the role its model label asks for
RoleFollowsLabel ==
    \A i \in 1..Len(nb["devices"]) :
        nb["devices"][i].role =
            IF IsInfrastructureLabel(ModelLabelOf(nb["devices"][i]))
            THEN HeldWith("device_roles", "name", "Network").id
            ELSE HeldWith("device_roles", "name", "Server").id

\* a device is created only when the service holds both roles
RolesBeforeDevices ==
    Len(nb'["devices"]) > Len(nb["devices"]) =>
        /\ HeldWith("device_roles", "name", "Network") # None
        /\ HeldWith("device_roles", "name", "Server") # None
        /\ env["ROLE_NETWORK"] = HeldWith("device_roles", "name", "Network")
        /\ env["ROLE_SERVER"] = HeldWith("device_roles", "name", "Server")

\* C19: every device created by ensure_device has the network role when the
\* model label of its device type contains "Switch" or "PDU" and the server
\* role otherwise, and both roles are held by the service before the first
\* device is created.
C19_RoleFromModelLabel ==
    /\ [](RoleFollowsLabel)
    /\ [][RolesBeforeDevices]_vars

\* the seven devices of the script, the switches and the PDU under the
\* network role, the nodes under the server role
C19_Witness ==
    /\ Len(nb["devices"]) = Len(DeviceStmts)
    /\ HeldWith("devices", "name", "PDU-SFDP-01").role = HeldWith("device_roles", "name", "Network").id
    /\ HeldWith("devices", "name", "TOR-SFDP-01").role = HeldWith("device_roles", "name", "Network").id
    /\ HeldWith("devices", "name", "GPU-SFDP-01").role = HeldWith("device_roles", "name", "Server").id
    /\ HeldWith("devices", "name", "STOR-SFDP-01").role = HeldWith("device_roles", "name", "Server").id
    /\ HeldWith("device_roles", "name", "Network").id # HeldWith("device_roles", "name", "Server").id
====
